---- MODULE Spec2Model ----
(***************************************************************************)
(* Barista bot: the per-account transaction queue of ContractService       *)
(* (queueTransaction / processQueue / executeWithNonce) and the market     *)
(* maker's reconciliation cycle (MarketMaker).                             *)
(*                                                                         *)
(* Node's event loop is modelled as interleaved atomic steps: one step is  *)
(* the code that runs between two suspension points (await of a chain      *)
(* read, a chain write, or a timer).                                       *)
(***************************************************************************)
EXTENDS Integers, Sequences, FiniteSets, TLC

(***************************************************************************)
(* Bounds of the model.                                                    *)
(***************************************************************************)
\* Spec: submissions (queueTransaction calls) made by the callers of one queue
MaxSubmissions == 7
\* Spec: chain calls (sends and getTransactionCount reads) that fail, over one run
MaxFaults == 1
\* RetrySpec: submissions made by the callers of one queue
RetrySubmissions == 2
\* RetrySpec: chain calls that fail, over one run
RetryFaults == 6
\* RetrySpec: transactions sent from the account by somebody else, over one run
MaxExternalTxs == 1
\* LiveSpec: submissions made by the callers of one queue
LiveSubmissions == 2
\* LiveSpec: chain calls that fail, over one run
LiveFaults == 5
\* LifecycleSpec: ticks of the refresh timer
LifeTicks == 1
\* AgentSpec, DirectSpec: ticks of the trading interval
AgentTicks == 2
\* AgentSpec: chain calls that fail, over one run
AgentFaults == 1
\* the account's on-chain transaction count when the process starts
InitialCount == 2
\* CycleSpec: ticks of the market maker's refresh timer, over one run
MaxTicks == 1
\* QuietSpec, PriceSpec: ticks of the refresh timer, over one run
QuietTicks == 2
\* CycleSpec: config.maxOrdersPerSide, the depth of the ladder (MAX_ORDERS_PER_SIDE)
MaxOrdersPerSide == 2
\* CycleSpec: what the environment does to the market maker over one run: a chain
\* read, a cancel or a place-order send that fails, or a resting order matched by a
\* taker
MaxDisturbances == 1
\* the ladder indices quoted are 0..MaxPosition
\* updateByCloud calls that store an answer
MaxRefreshes == 1
MaxPosition == 2

(***************************************************************************)
(* Program constants.                                                      *)
(***************************************************************************)
\* currentNonce: number | null = null
NoNonce == -1
\* executeWithNonce(transaction, retries = 5)
Retries == 5
\* if (this.pendingTransactions >= 5)
ResyncEvery == 5
\* Math.pow(2, attempt) * 1000
BackoffUnitMs == 1000
\* config.priceDeviationThresholdBps (PRICE_DEVIATION_THRESHOLD_BPS ?? 500)
PriceDeviationThresholdBps == 500

VARIABLES
    \* ContractService fields
    transactionQueue,     \* Array<() => Promise<any>>: the queued wrappers, by submission id
    processingQueue,      \* boolean
    currentNonce,         \* number | null
    pendingTransactions,  \* number
    \* the wrappers' closures: one record per submission id
    task,
    submitted,            \* number of queueTransaction calls so far (ids are 1..submitted)
    \* timers of the event loop
    drainTimers,          \* pending setTimeout(() => this.processQueue(), 100)
    resyncTimers,         \* pending setTimeout(async () => {...resync...}, 2000)
    \* the chain
    chainCount,           \* getTransactionCount of the account
    externalTxs,          \* transactions of the account not sent by this queue
    \* history of the sends the chain accepted
    acceptedLog,
    \* chain calls failed so far
    faults,
    \* MarketMaker fields
    lastMidPrice,         \* bigint
    isProcessing,         \* boolean
    priceRefreshInterval, \* NodeJS.Timeout | null: TRUE while the interval is set
    \* config.useBinancePrice
    useBinancePrice,
    \* the async calls of the market maker: start() and the reconciliation cycles
    act,
    \* the refresh timer
    ticks,                \* ticks fired so far
    skippedTicks,         \* ticks that found a cycle running
    \* the exchange
    openOrders,           \* getUserActiveOrders of the account: records [id, side]
    nextOrderId,
    disturbances,         \* failed calls and matched orders so far
    \* the last evaluation of one of the market maker's pure functions: its name,
    \* its arguments and its result
    calc,
    \* BotManager
    manager,              \* the startMarketMaker call and the shutdown handler
    exited,               \* process.exit was called
    \* TradingBot
    tradingInterval,      \* NodeJS.Timeout | null: TRUE while the interval is set
    trade,                \* the executeTrade calls, by the tick that made them
    tradeTicks,           \* ticks of the trading interval fired so far
    directWrites,         \* walletClient.writeContract calls made outside the queue
    \* the configuration: the object config.ts exports, shared by every worker
    config,
    ladder,               \* a placeMakerOrders call: its locals and the rungs it submitted
    refreshes             \* updateByCloud calls that have stored their answer

queueVars == <<transactionQueue, processingQueue, currentNonce, pendingTransactions,
               task, submitted, drainTimers, resyncTimers, chainCount, externalTxs,
               acceptedLog, faults>>

makerVars == <<lastMidPrice, isProcessing, priceRefreshInterval, useBinancePrice, act,
               ticks, skippedTicks, openOrders, nextOrderId, disturbances>>

lifeVars == <<manager, exited, tradingInterval, trade, tradeTicks, directWrites, config, ladder, refreshes>>

vars == <<queueVars, makerVars, calc, lifeVars>>

(***************************************************************************)
(* JavaScript's bigint.  TLC's integers are 32 bits wide and the prices of *)
(* the market maker are not (200000000000 is $2000 at 8 decimals), so a    *)
(* bigint is a sign and a magnitude, the magnitude a sequence of base-10^4 *)
(* limbs, least significant first, without a most significant zero limb.   *)
(***************************************************************************)
Base == 10 ^ 4

RECURSIVE MagNorm(_)
MagNorm(m) ==
    IF m = <<>> THEN <<>>
    ELSE IF m[Len(m)] = 0 THEN MagNorm(SubSeq(m, 1, Len(m) - 1)) ELSE m

RECURSIVE MagOfNat(_)
MagOfNat(n) == IF n = 0 THEN <<>> ELSE <<n % Base>> \o MagOfNat(n \div Base)

Limb(m, i) == IF i <= Len(m) THEN m[i] ELSE 0

RECURSIVE MagCmpFrom(_, _, _)
MagCmpFrom(a, b, i) ==
    IF i = 0 THEN 0
    ELSE IF a[i] # b[i] THEN (IF a[i] < b[i] THEN -1 ELSE 1)
    ELSE MagCmpFrom(a, b, i - 1)

\* -1, 0 or 1 as a < b, a = b, a > b
MagCmp(a, b) ==
    IF Len(a) # Len(b) THEN (IF Len(a) < Len(b) THEN -1 ELSE 1)
    ELSE MagCmpFrom(a, b, Len(a))

RECURSIVE MagAddFrom(_, _, _, _)
MagAddFrom(a, b, i, carry) ==
    IF i > Len(a) /\ i > Len(b) THEN MagOfNat(carry)
    ELSE LET s == Limb(a, i) + Limb(b, i) + carry
         IN  <<s % Base>> \o MagAddFrom(a, b, i + 1, s \div Base)

MagAdd(a, b) == MagNorm(MagAddFrom(a, b, 1, 0))

RECURSIVE MagSubFrom(_, _, _, _)
MagSubFrom(a, b, i, borrow) ==
    IF i > Len(a) THEN <<>>
    ELSE LET s == a[i] - Limb(b, i) - borrow
         IN  IF s < 0 THEN <<s + Base>> \o MagSubFrom(a, b, i + 1, 1)
             ELSE <<s>> \o MagSubFrom(a, b, i + 1, 0)

\* a - b for a >= b
MagSub(a, b) == MagNorm(MagSubFrom(a, b, 1, 0))

RECURSIVE MagMulLimbFrom(_, _, _, _)
MagMulLimbFrom(a, k, i, carry) ==
    IF i > Len(a) THEN MagOfNat(carry)
    ELSE LET p == a[i] * k + carry
         IN  <<p % Base>> \o MagMulLimbFrom(a, k, i + 1, p \div Base)

\* a * k for one limb k
MagMulLimb(a, k) == MagNorm(MagMulLimbFrom(a, k, 1, 0))

MagShift(a, n) == IF a = <<>> THEN <<>> ELSE [i \in 1..n |-> 0] \o a

RECURSIVE MagMulFrom(_, _, _)
MagMulFrom(a, b, i) ==
    IF i > Len(b) THEN <<>>
    ELSE MagAdd(MagShift(MagMulLimb(a, b[i]), i - 1), MagMulFrom(a, b, i + 1))

MagMul(a, b) == MagNorm(MagMulFrom(a, b, 1))

\* the largest d in lo..hi with d * b <= r
RECURSIVE MagQuotientLimb(_, _, _, _)
MagQuotientLimb(r, b, lo, hi) ==
    IF lo = hi THEN lo
    ELSE LET mid == (lo + hi + 1) \div 2
         IN  IF MagCmp(MagMulLimb(b, mid), r) <= 0
             THEN MagQuotientLimb(r, b, mid, hi)
             ELSE MagQuotientLimb(r, b, lo, mid - 1)

\* long division of the limbs i..1 of a by b, with r the remainder so far
RECURSIVE MagDivFrom(_, _, _, _)
MagDivFrom(a, b, i, r) ==
    IF i = 0 THEN <<>>
    ELSE LET r1 == MagNorm(<<a[i]>> \o r)
             n == Len(b)
             \* the quotient limb lies between the estimates from the leading limbs
             top == Limb(r1, n + 1) * Base + Limb(r1, n)
             lo == top \div (b[n] + 1)
             hi == IF top \div b[n] > Base - 1 THEN Base - 1 ELSE top \div b[n]
             d == MagQuotientLimb(r1, b, lo, hi)
         IN  Append(MagDivFrom(a, b, i - 1, MagSub(r1, MagMulLimb(b, d))), d)

\* the integer quotient of a by b, for b > 0
MagDiv(a, b) == MagNorm(MagDivFrom(a, b, Len(a), <<>>))

BigZero == [neg |-> FALSE, mag |-> <<>>]
BigMake(neg, mag) == IF mag = <<>> THEN BigZero ELSE [neg |-> neg, mag |-> mag]

\* the bigint of a (32-bit) integer
BigOfInt(n) == IF n < 0 THEN BigMake(TRUE, MagOfNat(0 - n)) ELSE BigMake(FALSE, MagOfNat(n))

RECURSIVE Reverse(_)
Reverse(s) == IF s = <<>> THEN <<>> ELSE Append(Reverse(Tail(s)), Head(s))

\* the bigint written as groups of four decimal digits: 200000000000n is
\* BigOf(<<2000, 0, 0>>)
BigOf(groups) == BigMake(FALSE, MagNorm(Reverse(groups)))

BigNeg(x) == BigMake(~x.neg, x.mag)

\* -1, 0 or 1 as x < y, x = y, x > y
BigCmp(x, y) ==
    IF x.neg # y.neg THEN (IF x.neg THEN -1 ELSE 1)
    ELSE IF x.neg THEN MagCmp(y.mag, x.mag) ELSE MagCmp(x.mag, y.mag)

BigGt(x, y) == BigCmp(x, y) = 1
BigLt(x, y) == BigCmp(x, y) = -1

BigAdd(x, y) ==
    IF x.neg = y.neg THEN BigMake(x.neg, MagAdd(x.mag, y.mag))
    ELSE IF MagCmp(x.mag, y.mag) >= 0 THEN BigMake(x.neg, MagSub(x.mag, y.mag))
    ELSE BigMake(y.neg, MagSub(y.mag, x.mag))

BigSub(x, y) == BigAdd(x, BigNeg(y))

BigMul(x, y) == BigMake(x.neg # y.neg, MagMul(x.mag, y.mag))

\* x / y of bigints: the quotient truncated toward zero (y # 0n)
BigDiv(x, y) == BigMake(x.neg # y.neg, MagDiv(x.mag, y.mag))

Ids == 1..(IF MaxSubmissions > RetrySubmissions THEN MaxSubmissions ELSE RetrySubmissions)

(***************************************************************************)
(* Error messages of the chain client.  A message is a sequence of words;  *)
(* String.prototype.includes is the search of a phrase in it.              *)
(***************************************************************************)
ErrorMessages ==
    { <<"nonce", "too", "low">>,
      <<"replacement", "transaction", "underpriced">>,
      <<"already", "known">>,
      <<"execution", "reverted">> }

includes(msg, phrase) ==
    \E i \in 1..(Len(msg) - Len(phrase) + 1) :
        SubSeq(msg, i, i + Len(phrase) - 1) = phrase

\* a classification that takes every error for a nonce error
isNonceErrorAlways(msg) == TRUE

\* errorMsg.includes("nonce") || errorMsg.includes("replacement transaction underpriced")
\*   || errorMsg.includes("already known")
isNonceError(msg) ==
    \/ includes(msg, <<"nonce">>)
    \/ includes(msg, <<"replacement", "transaction", "underpriced">>)
    \/ includes(msg, <<"already", "known">>)

NoError == [kind |-> "none", msg |-> <<>>, inv |-> 0]
NoHash == [id |-> 0, inv |-> 0]

\* the error thrown by the inv-th txFactory invocation of a submission
SendError(msg, inv) == [kind |-> "send", msg |-> msg, inv |-> inv]
\* the error thrown by a failed getTransactionCount
ReadError == [kind |-> "rpc", msg |-> <<"request", "failed">>, inv |-> 0]

NewTask ==
    [pc |-> "new",            \* new, queued, initFetch, inflight, accepted, refetch,
                              \* backoff, resolved, rejected
     attempt |-> 0,           \* let attempt = 0
     lastError |-> NoError,   \* let lastError
     invocations |-> 0,       \* calls of transaction()
     nonceAtCall |-> NoNonce, \* this.currentNonce when transaction() was last called
     txHash |-> NoHash,       \* what the pending transaction() will return
     waits |-> <<>>,          \* the backoff delays awaited so far, in ms
     settled |-> 0,           \* calls of resolve / reject of the caller's promise
     result |-> NoHash]       \* the value or error the caller's promise was settled with

QueueInit ==
    /\ transactionQueue = <<>>
    /\ processingQueue = FALSE
    /\ currentNonce = NoNonce
    /\ pendingTransactions = 0
    /\ task = [id \in Ids |-> NewTask]
    /\ submitted = 0
    /\ drainTimers = 0
    /\ resyncTimers = 0
    /\ chainCount = InitialCount
    /\ externalTxs = 0
    /\ acceptedLog = <<>>
    /\ faults = 0

(***************************************************************************)
(* The wrapper queueTransaction pushes, and executeWithNonce.              *)
(***************************************************************************)
\* resolve(result) of the wrapper
Resolve(t, value) ==
    [t EXCEPT !.pc = "resolved", !.settled = @ + 1, !.result = value]

\* a wrapper whose catch rethrows without calling reject
RejectNotSettling(t, error) ==
    [t EXCEPT !.pc = "rejected", !.result = error]

\* reject(error) of the wrapper
Reject(t, error) ==
    [t EXCEPT !.pc = "rejected", !.settled = @ + 1, !.result = error]

\* const result = await transaction(): the txFactory is called; nonce is this.currentNonce
\* at that moment
Invoke(t, nonce) ==
    [t EXCEPT !.pc = "inflight", !.invocations = @ + 1, !.nonceAtCall = nonce]

\* an executeWithNonce that fetches the transaction count at every call
BeginAlwaysFetches(t) == [t EXCEPT !.pc = "initFetch"]

\* txFunc() is called by processQueue: executeWithNonce up to its first await
Begin(t) ==
    IF currentNonce = NoNonce
    THEN [t EXCEPT !.pc = "initFetch"]
    ELSE Invoke(t, currentNonce)

\* a linear backoff
BackoffDelayLinear(attempt) == (attempt + 1) * BackoffUnitMs

\* Math.pow(2, attempt) * 1000
BackoffDelay(attempt) == (2 ^ attempt) * BackoffUnitMs

\* processQueue without the processingQueue test
processQueueReentrant(q, tk) ==
    IF Len(q) = 0
    THEN /\ transactionQueue' = q
         /\ task' = tk
         /\ UNCHANGED processingQueue
    ELSE /\ processingQueue' = TRUE
         /\ transactionQueue' = Tail(q)
         /\ task' = [tk EXCEPT ![Head(q)] = Begin(@)]

\* processQueue taking the newest wrapper: pop() for shift()
processQueuePop(q, tk) ==
    IF processingQueue \/ Len(q) = 0
    THEN /\ transactionQueue' = q
         /\ task' = tk
         /\ UNCHANGED processingQueue
    ELSE /\ processingQueue' = TRUE
         /\ transactionQueue' = SubSeq(q, 1, Len(q) - 1)
         /\ task' = [tk EXCEPT ![q[Len(q)]] = Begin(@)]

\* processQueue() up to its await; q and tk are the queue and the closures as the caller
\* leaves them
processQueue(q, tk) ==
    IF processingQueue \/ Len(q) = 0
    THEN /\ transactionQueue' = q
         /\ task' = tk
         /\ UNCHANGED processingQueue
    ELSE /\ processingQueue' = TRUE
         /\ transactionQueue' = Tail(q)          \* shift()
         /\ task' = [tk EXCEPT ![Head(q)] = Begin(@)]

\* a finally block that sets no timer for the wrappers still queued
FinallyNoDrain ==
    /\ processingQueue' = FALSE
    /\ UNCHANGED <<transactionQueue, drainTimers>>

\* the finally block of processQueue
Finally ==
    /\ processingQueue' = FALSE
    /\ drainTimers' = IF Len(transactionQueue) > 0 THEN drainTimers + 1 ELSE drainTimers
    /\ UNCHANGED transactionQueue

\* queueTransaction(txFunc), called by cancelOrder / placeOrder / placeMarketOrder...
Submit(maxSubmissions) ==
    /\ submitted < maxSubmissions
    /\ submitted' = submitted + 1
    /\ processQueue(Append(transactionQueue, submitted + 1),
                    [task EXCEPT ![submitted + 1].pc = "queued"])
    /\ UNCHANGED <<currentNonce, pendingTransactions, drainTimers, resyncTimers,
                   chainCount, externalTxs, acceptedLog, faults>>

\* the 100 ms timer set by the finally block fires
DrainTimerFire ==
    /\ drainTimers > 0
    /\ drainTimers' = drainTimers - 1
    /\ processQueue(transactionQueue, task)
    /\ UNCHANGED <<currentNonce, pendingTransactions, submitted, resyncTimers,
                   chainCount, externalTxs, acceptedLog, faults>>

\* this.currentNonce = await getTransactionCount(...) returns; the loop calls transaction()
InitFetchReturn(id) ==
    /\ task[id].pc = "initFetch"
    /\ currentNonce' = chainCount
    /\ task' = [task EXCEPT ![id] = Invoke(@, chainCount)]
    /\ UNCHANGED <<transactionQueue, processingQueue, pendingTransactions, submitted,
                   drainTimers, resyncTimers, chainCount, externalTxs, acceptedLog,
                   faults>>

\* the initial getTransactionCount throws: executeWithNonce throws, the wrapper rejects
InitFetchFail(id, maxFaults) ==
    /\ task[id].pc = "initFetch"
    /\ faults < maxFaults
    /\ faults' = faults + 1
    /\ task' = [task EXCEPT ![id] = Reject(@, ReadError)]
    /\ Finally
    /\ UNCHANGED <<currentNonce, pendingTransactions, submitted, resyncTimers,
                   chainCount, externalTxs, acceptedLog>>

\* walletClient.writeContract({address, abi, functionName, args}): the call passes no
\* nonce, the chain client takes the account's transaction count; the node accepts it
ChainAccept(id) ==
    /\ task[id].pc = "inflight"
    /\ chainCount' = chainCount + 1
    /\ task' = [task EXCEPT ![id].pc = "accepted",
                            ![id].txHash = [id |-> id, inv |-> task[id].invocations]]
    /\ acceptedLog' = Append(acceptedLog,
                             [id |-> id, local |-> task[id].nonceAtCall, nonce |-> chainCount])
    /\ UNCHANGED <<transactionQueue, processingQueue, currentNonce, pendingTransactions,
                   submitted, drainTimers, resyncTimers, externalTxs, faults>>

\* an executeWithNonce that restarts the pending counter when it schedules the resync
SendSuccessRestartsCount(id) ==
    /\ task[id].pc = "accepted"
    /\ currentNonce' = currentNonce + 1
    /\ pendingTransactions' = IF pendingTransactions + 1 >= ResyncEvery
                              THEN 0 ELSE pendingTransactions + 1
    /\ resyncTimers' = IF pendingTransactions + 1 >= ResyncEvery
                       THEN resyncTimers + 1 ELSE resyncTimers
    /\ task' = [task EXCEPT ![id] = Resolve(@, task[id].txHash)]
    /\ Finally
    /\ UNCHANGED <<submitted, chainCount, externalTxs, acceptedLog, faults>>

\* await transaction() returns the hash
SendSuccess(id) ==
    /\ task[id].pc = "accepted"
    /\ currentNonce' = currentNonce + 1
    /\ pendingTransactions' = pendingTransactions + 1
    /\ resyncTimers' = IF pendingTransactions + 1 >= ResyncEvery
                       THEN resyncTimers + 1 ELSE resyncTimers
    /\ task' = [task EXCEPT ![id] = Resolve(@, task[id].txHash)]
    /\ Finally
    /\ UNCHANGED <<submitted, chainCount, externalTxs, acceptedLog, faults>>

\* await transaction() throws an error with message msg
SendFail(id, msg, maxFaults) ==
    /\ task[id].pc = "inflight"
    /\ faults < maxFaults
    /\ faults' = faults + 1
    /\ LET err == SendError(msg, task[id].invocations) IN
       IF isNonceError(msg)
       THEN /\ task' = [task EXCEPT ![id].pc = "refetch", ![id].lastError = err]
            /\ UNCHANGED <<transactionQueue, processingQueue, drainTimers>>
       ELSE /\ task' = [task EXCEPT ![id] = Reject([@ EXCEPT !.lastError = err], err)]
            /\ Finally
    /\ UNCHANGED <<currentNonce, pendingTransactions, submitted, resyncTimers,
                   chainCount, externalTxs, acceptedLog>>

\* the getTransactionCount of the nonce-error branch returns; the backoff wait starts
RefetchReturn(id) ==
    /\ task[id].pc = "refetch"
    /\ currentNonce' = chainCount
    /\ task' = [task EXCEPT ![id].pc = "backoff",
                            ![id].waits = Append(@, BackoffDelay(task[id].attempt))]
    /\ UNCHANGED <<transactionQueue, processingQueue, pendingTransactions, submitted,
                   drainTimers, resyncTimers, chainCount, externalTxs, acceptedLog,
                   faults>>

\* a nonce-error branch whose failed getTransactionCount ends the submission
RefetchFailAborts(id, maxFaults) ==
    /\ task[id].pc = "refetch"
    /\ faults < maxFaults
    /\ faults' = faults + 1
    /\ task' = [task EXCEPT ![id] = Reject(@, ReadError)]
    /\ Finally
    /\ UNCHANGED <<currentNonce, pendingTransactions, submitted, resyncTimers,
                   chainCount, externalTxs, acceptedLog>>

\* the getTransactionCount of the nonce-error branch throws; the backoff wait starts
RefetchFail(id, maxFaults) ==
    /\ task[id].pc = "refetch"
    /\ faults < maxFaults
    /\ faults' = faults + 1
    /\ task' = [task EXCEPT ![id].pc = "backoff",
                            ![id].waits = Append(@, BackoffDelay(task[id].attempt))]
    /\ UNCHANGED <<transactionQueue, processingQueue, currentNonce, pendingTransactions,
                   submitted, drainTimers, resyncTimers, chainCount, externalTxs,
                   acceptedLog>>

\* the backoff timer fires: attempt++, then the loop test
BackoffDone(id) ==
    /\ task[id].pc = "backoff"
    /\ IF task[id].attempt + 1 < Retries
       THEN /\ task' = [task EXCEPT ![id] = Invoke([@ EXCEPT !.attempt = @ + 1], currentNonce)]
            /\ UNCHANGED <<transactionQueue, processingQueue, drainTimers>>
       ELSE /\ task' = [task EXCEPT ![id] =
                            Reject([@ EXCEPT !.attempt = @ + 1], task[id].lastError)]
            /\ Finally
    /\ UNCHANGED <<currentNonce, pendingTransactions, submitted, resyncTimers,
                   chainCount, externalTxs, acceptedLog, faults>>

\* a resync that takes the on-chain count whatever the local nonce is
ResyncReturnAlwaysAdopts ==
    /\ resyncTimers > 0
    /\ resyncTimers' = resyncTimers - 1
    /\ currentNonce' = chainCount
    /\ pendingTransactions' = 0
    /\ UNCHANGED <<transactionQueue, processingQueue, task, submitted, drainTimers,
                   chainCount, externalTxs, acceptedLog, faults>>

\* the 2000 ms resync callback: its getTransactionCount returns
ResyncReturn ==
    /\ resyncTimers > 0
    /\ resyncTimers' = resyncTimers - 1
    /\ currentNonce' = IF currentNonce # NoNonce /\ chainCount > currentNonce
                       THEN chainCount ELSE currentNonce
    /\ pendingTransactions' = 0
    /\ UNCHANGED <<transactionQueue, processingQueue, task, submitted, drainTimers,
                   chainCount, externalTxs, acceptedLog, faults>>

\* the 2000 ms resync callback: its getTransactionCount throws
ResyncFail(maxFaults) ==
    /\ resyncTimers > 0
    /\ faults < maxFaults
    /\ faults' = faults + 1
    /\ resyncTimers' = resyncTimers - 1
    /\ UNCHANGED <<transactionQueue, processingQueue, currentNonce, pendingTransactions,
                   task, submitted, drainTimers, chainCount, externalTxs, acceptedLog>>

\* somebody else sends a transaction from the account
ExternalTx(maxExternal) ==
    /\ externalTxs < maxExternal
    /\ externalTxs' = externalTxs + 1
    /\ chainCount' = chainCount + 1
    /\ UNCHANGED <<transactionQueue, processingQueue, currentNonce, pendingTransactions,
                   task, submitted, drainTimers, resyncTimers, acceptedLog, faults>>

(***************************************************************************)
(* The market maker: start() and performMarketMakingCycle().               *)
(***************************************************************************)
\* act[0] is start(); act[c], c >= 1, is the c-th call of performMarketMakingCycle
MostTicks == IF MaxTicks > QuietTicks THEN MaxTicks ELSE QuietTicks
Acts == 0..(MostTicks + 3)
\* the slot of stop()
StopAct == MostTicks + 2
\* the slot of the stop() call of a second signal handler
SecondStopAct == MostTicks + 3
StopActs == {StopAct, SecondStopAct}
Cycles == 1..(MostTicks + 1)

\* the prices of the deviation boundary: $2000, $2100 and $2102.10000001 at 8 decimals
Price2000 == BigOf(<<2000, 0, 0>>)
Price2100 == BigOf(<<2100, 0, 0>>)
Price2102 == BigOf(<<2102, 1000, 1>>)

\* what fetchBinancePrice returns: 0n on any failure, else a multiple of 10^6
BinanceAnswers == {BigZero, Price2000, Price2100}
\* what fetchChainlinkPrice returns: 0n on any failure or stale answer, else the answer
ChainlinkAnswers == {BigZero, Price2102}
\* config.defaultPrice: DEFAULT_PRICE=2000
DefaultPrice == BigOfInt(2000)
\* answers of the price feed, whose answer is an int256: none (or a stale one), a
\* negative one, a price
FeedAnswers == {BigZero, BigOfInt(-1), Price2102}

\* orders left on the exchange by an earlier run of the bot
\* (index and mid tell what a resting order was priced from: its rung and the reference
\* price of the cycle that placed it; those of an earlier run are not known)
InitialOrders == {[id |-> 1, side |-> "BUY", index |-> 0, mid |-> BigZero],
                  [id |-> 2, side |-> "SELL", index |-> 0, mid |-> BigZero]}

\* no getUserActiveOrders has returned to the branch
NotRead == [read |-> FALSE, buy |-> 0, sell |-> 0]

NewAct ==
    [pc |-> "idle",                 \* idle, cancelRead, cancelWait, binance, chainlink,
                                    \* activeOrders, fillRead, place, running, done
     previousMidPrice |-> BigZero,  \* const previousMidPrice = this.lastMidPrice
     price |-> BigZero,             \* let price = 0n (updateMarketData)
     fetches |-> 0,                 \* answers of the price sources received
     answers |-> <<>>,              \* those answers, in the order received
     newPrice |-> BigZero,          \* this.lastMidPrice when the branch was chosen
     branch |-> "none",             \* none, replace, fill
     replaceRuns |-> 0,             \* calls of cancelAndReplaceOrders
     fillRuns |-> 0,                \* calls of fillMissingOrders
     pendingCancels |-> <<>>,       \* ids of the cancelOrder calls not settled yet
     toPlace |-> <<>>,              \* rungs of the placeOrder calls still to settle
     cancels |-> 0,                 \* cancelOrder calls made
     places |-> 0,                  \* placeOrder calls made
     issued |-> <<>>,               \* their rungs [side, index], in call order
     seen |-> NotRead,              \* the orders getUserActiveOrders reported, by side
     failed |-> 0]                  \* cancelOrder and placeOrder calls that rejected

MakerInit ==
    /\ lastMidPrice = BigZero
    /\ isProcessing = FALSE
    /\ priceRefreshInterval = FALSE
    /\ useBinancePrice = FALSE
    /\ act = [a \in Acts |-> NewAct]
    /\ ticks = 0
    /\ skippedTicks = 0
    /\ openOrders = InitialOrders
    /\ nextOrderId = 3
    /\ disturbances = 0

\* no function evaluated yet
NoCalc == [fn |-> "none"]

\* the executeTrade calls
Trades == 1..AgentTicks

NewTrade ==
    [pc |-> "idle",     \* idle, bid, ask, queued, writing, skipped, done
     bid |-> 0,         \* bestBid.price
     ask |-> 0,         \* bestAsk.price
     id |-> 0]          \* the submission made by placeMarketOrderWithDeposit

NewManager ==
    [pc |-> "idle",     \* idle, verifyPool, decimals, setup, start, running, failed,
                        \* stopping, stopped
     isInitiated |-> "unknown",  \* what initialize() returned, once it has
     error |-> "none",  \* what startMarketMaker threw
     starts |-> 0,      \* calls of marketMaker.start()
     handlers |-> 0,    \* calls of setupShutdownHandlers()
     bots |-> "none"]    \* none, started, nokeys: what startTradingBots() did

\* the configuration read from the environment: MAX_ORDERS_PER_SIDE, SPREAD_PERCENTAGE
\* and PRICE_STEP_PERCENTAGE in tenths of a percent (0.2 and 0.1), ORDER_SIZE in tenths
\* of a base token (0.1)
InitialConfig ==
    [maxOrdersPerSide |-> MaxOrdersPerSide,
     spreadPercentage |-> 2,
     priceStepPercentage |-> 1,
     orderSize |-> 1]

NewLadder ==
    [pc |-> "idle",               \* idle, buy, sell (awaiting placeOrder of that loop), done
     i |-> 0,                     \* let i
     spreadBasisPoints |-> 0,     \* const spreadBasisPoints
     priceStepBasisPoints |-> 0,  \* const priceStepBasisPoints
     placed |-> <<>>]             \* the placeOrder calls made, in order

LifeInit ==
    /\ manager = NewManager
    /\ exited = FALSE
    /\ tradingInterval = FALSE
    /\ trade = [t \in Trades |-> NewTrade]
    /\ tradeTicks = 0
    /\ directWrites = 0
    /\ config = InitialConfig
    /\ ladder = NewLadder
    /\ refreshes = 0

Init == QueueInit /\ MakerInit /\ calc = NoCalc /\ LifeInit

\* the ids of the open orders, in the order the exchange lists them
RECURSIVE OrderIds(_)
OrderIds(S) ==
    IF S = {} THEN <<>>
    ELSE LET o == CHOOSE x \in S : \A y \in S : x.id <= y.id
         IN  <<o.id>> \o OrderIds(S \ {o})

Repeat(x, n) == [i \in 1..n |-> x]
\* the rungs from, from + 1, ... of n loop iterations on one side
Rungs(side, from, n) == [i \in 1..n |-> [side |-> side, index |-> from + i - 1]]
Max0(n) == IF n > 0 THEN n ELSE 0
CountSide(S, side) == Cardinality({o \in S : o.side = side})

\* a deviation test that counts the threshold itself as significant
isPriceDeviationSignificantNonStrict(oldPrice, newPrice) ==
    IF oldPrice = BigZero \/ newPrice = BigZero THEN TRUE
    ELSE LET priceDifference == IF BigGt(oldPrice, newPrice)
                                THEN BigSub(oldPrice, newPrice)
                                ELSE BigSub(newPrice, oldPrice)
             deviationBps == BigDiv(BigMul(priceDifference, BigOfInt(10000)), oldPrice)
             thresholdBps == BigOfInt(PriceDeviationThresholdBps)
         IN  ~BigLt(deviationBps, thresholdBps)

\* a deviation test that rounds the deviation up to the next whole basis point
isPriceDeviationSignificantCeil(oldPrice, newPrice, priceDeviationThresholdBps) ==
    IF oldPrice = BigZero \/ newPrice = BigZero THEN TRUE
    ELSE LET priceDifference == IF BigGt(oldPrice, newPrice)
                                THEN BigSub(oldPrice, newPrice)
                                ELSE BigSub(newPrice, oldPrice)
             scaled == BigMul(priceDifference, BigOfInt(10000))
             deviationBps == BigDiv(BigAdd(scaled, BigSub(oldPrice, BigOfInt(1))), oldPrice)
             thresholdBps == BigOfInt(priceDeviationThresholdBps)
         IN  BigGt(deviationBps, thresholdBps)

\* isPriceDeviationSignificant with this.config.priceDeviationThresholdBps as an
\* argument
isPriceDeviationSignificantAt(oldPrice, newPrice, priceDeviationThresholdBps) ==
    IF oldPrice = BigZero \/ newPrice = BigZero THEN TRUE
    ELSE LET priceDifference == IF BigGt(oldPrice, newPrice)
                                THEN BigSub(oldPrice, newPrice)
                                ELSE BigSub(newPrice, oldPrice)
             deviationBps == BigDiv(BigMul(priceDifference, BigOfInt(10000)), oldPrice)
             thresholdBps == BigOfInt(priceDeviationThresholdBps)
         IN  BigGt(deviationBps, thresholdBps)

isPriceDeviationSignificant(oldPrice, newPrice) ==
    isPriceDeviationSignificantAt(oldPrice, newPrice, PriceDeviationThresholdBps)

\* the test of the cycle, inverted
BranchInverted(previousMidPrice, mid) ==
    IF previousMidPrice = BigZero \/ isPriceDeviationSignificant(previousMidPrice, mid)
    THEN "fill" ELSE "replace"

\* if (previousMidPrice === 0n || this.isPriceDeviationSignificant(...)) ... else ...
Branch(previousMidPrice, mid) ==
    IF previousMidPrice = BigZero \/ isPriceDeviationSignificant(previousMidPrice, mid)
    THEN "replace" ELSE "fill"

\* updateMarketData() up to its first await
EnterUpdateMarketData(r) ==
    [r EXCEPT !.price = BigZero,
              !.fetches = 0,
              !.answers = <<>>,
              !.pc = IF useBinancePrice THEN "binance" ELSE "chainlink"]

\* the slot of the next call of performMarketMakingCycle
NextCycle == 1 + Cardinality({c \in Cycles : act[c].pc # "idle"})

\* a cycle that does not raise the in-progress flag
performMarketMakingCycleNoFlag(c, tk) ==
    IF isProcessing
    THEN act' = tk /\ UNCHANGED isProcessing
    ELSE /\ UNCHANGED isProcessing
         /\ act' = [tk EXCEPT ![c] =
                        EnterUpdateMarketData([@ EXCEPT !.previousMidPrice = lastMidPrice])]

\* a cycle that compares against the price the oldest resting order was placed from
performMarketMakingCycleLadderBaseline(c, tk) ==
    IF isProcessing
    THEN act' = tk /\ UNCHANGED isProcessing
    ELSE /\ isProcessing' = TRUE
         /\ LET baseline ==
                  IF openOrders = {} THEN lastMidPrice
                  ELSE (CHOOSE o \in openOrders : \A p \in openOrders : o.id <= p.id).mid
            IN  act' = [tk EXCEPT ![c] =
                           EnterUpdateMarketData([@ EXCEPT !.previousMidPrice = baseline])]

\* performMarketMakingCycle() up to its first await; tk is act as the caller leaves it
performMarketMakingCycle(c, tk) ==
    IF isProcessing
    THEN act' = tk /\ UNCHANGED isProcessing
    ELSE /\ isProcessing' = TRUE
         /\ act' = [tk EXCEPT ![c] =
                        EnterUpdateMarketData([@ EXCEPT !.previousMidPrice = lastMidPrice])]

\* the end of the cycle: the finally block resets the flag.  The call returns and its
\* locals go with it; what it decided, read and issued stays on record.
Finish(a, r) ==
    /\ act' = [act EXCEPT ![a] = [r EXCEPT !.pc = "done", !.price = BigZero,
                                            !.fetches = 0, !.answers = <<>>,
                                            !.failed = 0]]
    /\ isProcessing' = FALSE

\* the next await this.placeOrder(...) of a loop, or the end of the loops
StartPlacing(a, r) ==
    IF r.toPlace = <<>>
    THEN Finish(a, r)
    ELSE /\ act' = [act EXCEPT ![a] = [r EXCEPT !.pc = "place", !.places = @ + 1,
                                                 !.issued = Append(@, Head(r.toPlace))]]
         /\ UNCHANGED isProcessing

\* a ladder that stops one sell rung short
LadderPlanShort == Rungs("BUY", 0, MaxOrdersPerSide) \o Rungs("SELL", 0, MaxOrdersPerSide - 1)

\* a ladder that places the sell rungs before the buy rungs
LadderPlanSellsFirst == Rungs("SELL", 0, MaxOrdersPerSide) \o Rungs("BUY", 0, MaxOrdersPerSide)

\* a gap filler that always adds one rung
MissingRungsOne(side, count) == Rungs(side, MaxOrdersPerSide - 1, 1)

\* the two loops of placeMakerOrders: buy rungs 0..maxOrdersPerSide-1, then sell rungs
\* 0..maxOrdersPerSide-1
LadderPlan == Rungs("BUY", 0, MaxOrdersPerSide) \o Rungs("SELL", 0, MaxOrdersPerSide)

\* the loop of fillMissingOrders on one side that holds count orders:
\* position = maxOrdersPerSide - ordersToAdd + i
MissingRungs(side, count) ==
    LET ordersToAdd == Max0(MaxOrdersPerSide - count)
    IN  Rungs(side, MaxOrdersPerSide - ordersToAdd, ordersToAdd)

\* a placeMakerOrders without the test of the mid price
placeMakerOrdersUnguarded(a, r) == StartPlacing(a, [r EXCEPT !.toPlace = LadderPlan])

\* placeMakerOrders(): nothing without a mid price, else the ladder
placeMakerOrders(a, r) ==
    IF lastMidPrice = BigZero
    THEN Finish(a, r)
    ELSE StartPlacing(a, [r EXCEPT !.toPlace = LadderPlan])

\* what follows await this.cancelAllOrders(): updateMarketData in start(),
\* placeMakerOrders in cancelAndReplaceOrders, the return in stop()
AfterCancelAll(a, r) ==
    IF a = 0
    THEN /\ act' = [act EXCEPT ![a] = EnterUpdateMarketData(
                                           [r EXCEPT !.cancels = 0, !.seen = NotRead,
                                                     !.failed = 0])]
         /\ UNCHANGED isProcessing
    ELSE IF a \in StopActs
    THEN /\ act' = [act EXCEPT ![a] = [r EXCEPT !.pc = "stopped"]]
         /\ UNCHANGED isProcessing
    ELSE placeMakerOrders(a, r)

\* the constructor takes the configuration (USE_BINANCE_PRICE is 'true' or not);
\* start(): await this.cancelAllOrders()
MakerStart ==
    /\ act[0].pc = "idle"
    /\ useBinancePrice' \in BOOLEAN
    /\ act' = [act EXCEPT ![0].pc = "cancelRead"]
    /\ UNCHANGED <<lastMidPrice, isProcessing, priceRefreshInterval, ticks,
                   skippedTicks, openOrders, nextOrderId, disturbances>>

\* cancelAllOrders: getUserActiveOrders returns, one cancelOrder is called per order
CancelReadReturn(a) ==
    /\ act[a].pc = "cancelRead"
    /\ LET ids == OrderIds(openOrders)
           r == [act[a] EXCEPT !.seen = [read |-> TRUE,
                                         buy |-> CountSide(openOrders, "BUY"),
                                         sell |-> CountSide(openOrders, "SELL")]]
       IN  IF ids = <<>>
           THEN AfterCancelAll(a, r)
           ELSE /\ act' = [act EXCEPT ![a] = [r EXCEPT !.pc = "cancelWait",
                                                       !.pendingCancels = ids,
                                                       !.cancels = @ + Len(ids)]]
                /\ UNCHANGED isProcessing
    /\ UNCHANGED <<lastMidPrice, priceRefreshInterval, useBinancePrice, ticks,
                   skippedTicks, openOrders, nextOrderId, disturbances>>

\* cancelAllOrders: getUserActiveOrders throws, the outer catch logs it
CancelReadFail(a) ==
    /\ act[a].pc = "cancelRead"
    /\ disturbances < MaxDisturbances
    /\ disturbances' = disturbances + 1
    /\ AfterCancelAll(a, act[a])
    /\ UNCHANGED <<lastMidPrice, priceRefreshInterval, useBinancePrice, ticks,
                   skippedTicks, openOrders, nextOrderId>>

\* the oldest pending cancelOrder resolves; Promise.all resolves after the last one
CancelOk(a) ==
    /\ act[a].pc = "cancelWait"
    /\ LET id == Head(act[a].pendingCancels)
           r == [act[a] EXCEPT !.pendingCancels = Tail(@)]
       IN  /\ \E o \in openOrders : o.id = id
           /\ openOrders' = {o \in openOrders : o.id # id}
           /\ IF r.pendingCancels = <<>>
              THEN AfterCancelAll(a, r)
              ELSE act' = [act EXCEPT ![a] = r] /\ UNCHANGED isProcessing
    /\ UNCHANGED <<lastMidPrice, priceRefreshInterval, useBinancePrice, ticks,
                   skippedTicks, nextOrderId, disturbances>>

\* the oldest pending cancelOrder rejects (the order is gone, or the send failed); the
\* inner catch logs it
CancelFail(a) ==
    /\ act[a].pc = "cancelWait"
    /\ LET id == Head(act[a].pendingCancels)
           r == [act[a] EXCEPT !.pendingCancels = Tail(@), !.failed = @ + 1]
       IN  /\ IF \E o \in openOrders : o.id = id
              THEN disturbances < MaxDisturbances /\ disturbances' = disturbances + 1
              ELSE UNCHANGED disturbances
           /\ IF r.pendingCancels = <<>>
              THEN AfterCancelAll(a, r)
              ELSE act' = [act EXCEPT ![a] = r] /\ UNCHANGED isProcessing
    /\ UNCHANGED <<lastMidPrice, priceRefreshInterval, useBinancePrice, ticks,
                   skippedTicks, openOrders, nextOrderId>>

\* an updateMarketData that stores whatever price it ends with
StorePriceAlways(a, answer, price) ==
    /\ lastMidPrice' = price
    /\ act' = [act EXCEPT ![a].price = price, ![a].fetches = @ + 1,
                          ![a].answers = Append(@, answer),
                          ![a].pc = "activeOrders"]

\* updateMarketData after the answer of its last source, price being its local
\* variable: price > 0n is stored, then updateActiveOrders is awaited
StorePrice(a, answer, price) ==
    /\ lastMidPrice' = IF BigGt(price, BigZero) THEN price ELSE lastMidPrice
    /\ act' = [act EXCEPT ![a].price = price, ![a].fetches = @ + 1,
                          ![a].answers = Append(@, answer),
                          ![a].pc = "activeOrders"]

\* updateMarketData: fetchBinancePrice returns
BinanceReturn(a, answer) ==
    /\ act[a].pc = "binance"
    /\ IF answer = BigZero
       THEN /\ act' = [act EXCEPT ![a].price = answer, ![a].fetches = @ + 1,
                                  ![a].answers = Append(@, answer),
                                  ![a].pc = "chainlink"]
            /\ UNCHANGED lastMidPrice
       ELSE StorePrice(a, answer, answer)
    /\ UNCHANGED <<isProcessing, priceRefreshInterval, useBinancePrice, ticks,
                   skippedTicks, openOrders, nextOrderId, disturbances>>

\* updateMarketData: fetchChainlinkPrice returns
ChainlinkReturn(a, answer) ==
    /\ act[a].pc = "chainlink"
    /\ StorePrice(a, answer, answer)
    /\ UNCHANGED <<isProcessing, priceRefreshInterval, useBinancePrice, ticks,
                   skippedTicks, openOrders, nextOrderId, disturbances>>

\* the variant of updateMarketData with a configured default (DEFAULT_PRICE=2000):
\*   if (price === 0n) { price = BigInt(this.config.defaultPrice!); }
WithDefault(price) == IF price = BigZero THEN DefaultPrice ELSE price

\* that variant of updateMarketData: fetchChainlinkPrice returns
ChainlinkReturnThenDefault(a, answer) ==
    /\ act[a].pc = "chainlink"
    /\ StorePrice(a, answer, WithDefault(answer))
    /\ UNCHANGED <<isProcessing, priceRefreshInterval, useBinancePrice, ticks,
                   skippedTicks, openOrders, nextOrderId, disturbances>>

\* updateActiveOrders returns (its getUserActiveOrders returned or threw) and so does
\* updateMarketData.  In start(): setInterval, then the first cycle is called.  In a
\* cycle: the branch is chosen and entered.
MarketDataReturn(a) ==
    /\ act[a].pc = "activeOrders"
    /\ IF a = 0
       THEN /\ priceRefreshInterval' = TRUE
            /\ performMarketMakingCycle(NextCycle,
                    [act EXCEPT ![0] = [@ EXCEPT !.pc = "running", !.price = BigZero,
                                                 !.fetches = 0, !.answers = <<>>]])
       ELSE /\ LET b == Branch(act[a].previousMidPrice, lastMidPrice) IN
               act' = [act EXCEPT ![a].branch = b,
                                  ![a].newPrice = lastMidPrice,
                                  ![a].replaceRuns = IF b = "replace" THEN @ + 1 ELSE @,
                                  ![a].fillRuns = IF b = "fill" THEN @ + 1 ELSE @,
                                  ![a].pc = IF b = "replace" THEN "cancelRead" ELSE "fillRead"]
            /\ UNCHANGED <<isProcessing, priceRefreshInterval>>
    /\ UNCHANGED <<lastMidPrice, useBinancePrice, ticks, skippedTicks, openOrders,
                   nextOrderId, disturbances>>

\* fillMissingOrders: getUserActiveOrders returns, the missing orders of each side are
\* counted and placed
FillReadReturn(a) ==
    /\ act[a].pc = "fillRead"
    /\ LET buyOrders == CountSide(openOrders, "BUY")
           sellOrders == CountSide(openOrders, "SELL")
       IN  StartPlacing(a, [act[a] EXCEPT
                   !.seen = [read |-> TRUE, buy |-> buyOrders, sell |-> sellOrders],
                   !.toPlace = MissingRungs("BUY", buyOrders)
                                   \o MissingRungs("SELL", sellOrders)])
    /\ UNCHANGED <<lastMidPrice, priceRefreshInterval, useBinancePrice, ticks,
                   skippedTicks, openOrders, nextOrderId, disturbances>>

\* a failed read that leaves the cycle without passing through its finally block
FillReadFailKeepsFlag(a) ==
    /\ act[a].pc = "fillRead"
    /\ disturbances < MaxDisturbances
    /\ disturbances' = disturbances + 1
    /\ act' = [act EXCEPT ![a].pc = "done"]
    /\ UNCHANGED <<lastMidPrice, isProcessing, priceRefreshInterval, useBinancePrice,
                   ticks, skippedTicks, openOrders, nextOrderId>>

\* fillMissingOrders: getUserActiveOrders throws, the catch logs it
FillReadFail(a) ==
    /\ act[a].pc = "fillRead"
    /\ disturbances < MaxDisturbances
    /\ disturbances' = disturbances + 1
    /\ Finish(a, act[a])
    /\ UNCHANGED <<lastMidPrice, priceRefreshInterval, useBinancePrice, ticks,
                   skippedTicks, openOrders, nextOrderId>>

\* MarketMaker.placeOrder: contractService.placeOrder resolves, the order rests
PlaceOk(a) ==
    /\ act[a].pc = "place"
    /\ openOrders' = openOrders \cup {[id |-> nextOrderId,
                                       side |-> Head(act[a].toPlace).side,
                                       index |-> Head(act[a].toPlace).index,
                                       mid |-> lastMidPrice]}
    /\ nextOrderId' = nextOrderId + 1
    /\ StartPlacing(a, [act[a] EXCEPT !.toPlace = Tail(@)])
    /\ UNCHANGED <<lastMidPrice, priceRefreshInterval, useBinancePrice, ticks,
                   skippedTicks, disturbances>>

\* a placeOrder that lets the rejection out: the loops are left and the catch of the
\* cycle logs it
PlaceFailAborts(a) ==
    /\ act[a].pc = "place"
    /\ disturbances < MaxDisturbances
    /\ disturbances' = disturbances + 1
    /\ Finish(a, [act[a] EXCEPT !.toPlace = <<>>])
    /\ UNCHANGED <<lastMidPrice, priceRefreshInterval, useBinancePrice, ticks,
                   skippedTicks, openOrders, nextOrderId>>

\* MarketMaker.placeOrder: contractService.placeOrder rejects, the catch logs it
PlaceFail(a) ==
    /\ act[a].pc = "place"
    /\ disturbances < MaxDisturbances
    /\ disturbances' = disturbances + 1
    /\ StartPlacing(a, [act[a] EXCEPT !.toPlace = Tail(@), !.failed = @ + 1])
    /\ UNCHANGED <<lastMidPrice, priceRefreshInterval, useBinancePrice, ticks,
                   skippedTicks, openOrders, nextOrderId>>

\* the setInterval callback of start()
Tick(maxTicks) ==
    /\ priceRefreshInterval
    /\ ticks < maxTicks
    /\ ticks' = ticks + 1
    /\ IF ~isProcessing
       THEN /\ performMarketMakingCycle(NextCycle, act)
            /\ UNCHANGED skippedTicks
       ELSE /\ skippedTicks' = skippedTicks + 1
            /\ UNCHANGED <<act, isProcessing>>
    /\ UNCHANGED <<lastMidPrice, priceRefreshInterval, useBinancePrice, openOrders,
                   nextOrderId, disturbances>>

\* a taker's market order matches a resting order of the account
OrderFilled ==
    /\ disturbances < MaxDisturbances
    /\ disturbances' = disturbances + 1
    /\ \E o \in openOrders : openOrders' = openOrders \ {o}
    /\ UNCHANGED <<lastMidPrice, isProcessing, priceRefreshInterval, useBinancePrice,
                   act, ticks, skippedTicks, nextOrderId>>

(***************************************************************************)
(* BotManager: startMarketMaker() and the shutdown handler.                *)
(***************************************************************************)
\* config.baseToken and config.quoteToken are both defined, or not
TokenConfigs == BOOLEAN

\* startMarketMaker(): new MarketMaker() builds the ContractService, whose
\* constructor throws without a base or quote token; then initialize() up to its
\* await of verifyPool()
StartMarketMaker(tokensDefined) ==
    /\ manager.pc = "idle"
    /\ manager' = IF tokensDefined
                  THEN [manager EXCEPT !.pc = "verifyPool"]
                  ELSE [manager EXCEPT !.pc = "failed", !.error = "tokens"]
    /\ UNCHANGED <<exited, tradingInterval, trade, tradeTicks, directWrites, config, ladder, refreshes>>

\* a startMarketMaker that calls start() whatever initialize() returned
VerifyPoolDoneUnchecked(found) ==
    /\ manager.pc = "verifyPool"
    /\ IF found
       THEN /\ manager' = [manager EXCEPT !.pc = "decimals"]
            /\ UNCHANGED makerVars
       ELSE /\ MakerStart
            /\ manager' = [manager EXCEPT !.pc = "start", !.isInitiated = "false",
                                          !.starts = @ + 1]
    /\ UNCHANGED <<exited, tradingInterval, trade, tradeTicks, directWrites, config, ladder, refreshes>>

\* verifyPool() returns the pool, or its read throws: initialize() catches 'Pool does
\* not exist' and returns false, and startMarketMaker throws
VerifyPoolDone(found) ==
    /\ manager.pc = "verifyPool"
    /\ manager' = IF found
                  THEN [manager EXCEPT !.pc = "decimals"]
                  ELSE [manager EXCEPT !.pc = "failed", !.isInitiated = "false",
                                       !.error = "initialize"]
    /\ UNCHANGED makerVars
    /\ UNCHANGED <<exited, tradingInterval, trade, tradeTicks, directWrites, config, ladder, refreshes>>

\* initializeTokenDecimals() returns (a failed read yields 18); setup() is awaited
DecimalsDone ==
    /\ manager.pc = "decimals"
    /\ manager' = [manager EXCEPT !.pc = "setup"]
    /\ UNCHANGED <<exited, tradingInterval, trade, tradeTicks, directWrites, config, ladder, refreshes>>

\* setup() returns: initialize() returns true and start() is called, or false and
\* startMarketMaker throws
SetupDone(ok) ==
    /\ manager.pc = "setup"
    /\ IF ok
       THEN /\ MakerStart
            /\ manager' = [manager EXCEPT !.pc = "start", !.isInitiated = "true",
                                          !.starts = @ + 1]
       ELSE /\ manager' = [manager EXCEPT !.pc = "failed", !.isInitiated = "false",
                                          !.error = "initialize"]
            /\ UNCHANGED makerVars
    /\ UNCHANGED <<exited, tradingInterval, trade, tradeTicks, directWrites, config, ladder, refreshes>>

\* start() returns once its own cycle has; setupShutdownHandlers()
StartReturn ==
    /\ manager.pc = "start"
    /\ act[0].pc = "running"
    /\ act[1].pc = "done"
    /\ manager' = [manager EXCEPT !.pc = "running", !.handlers = @ + 1]
    /\ UNCHANGED <<exited, tradingInterval, trade, tradeTicks, directWrites, config, ladder, refreshes>>

\* a stop() that leaves the interval set
stopKeepsInterval ==
    /\ act' = [act EXCEPT ![StopAct].pc = "cancelRead"]
    /\ UNCHANGED <<lastMidPrice, isProcessing, priceRefreshInterval, useBinancePrice,
                   ticks, skippedTicks, openOrders, nextOrderId, disturbances>>

\* MarketMaker.stop() up to its await: clearInterval, then cancelAllOrders() up to
\* its read of the open orders
stop ==
    /\ priceRefreshInterval' = FALSE
    /\ act' = [act EXCEPT ![StopAct].pc = "cancelRead"]
    /\ UNCHANGED <<lastMidPrice, isProcessing, useBinancePrice, ticks, skippedTicks,
                   openOrders, nextOrderId, disturbances>>

\* two signal handlers: each calls shutdown(), which calls stop(), in one turn of the
\* event loop (the stop() of a trading bot awaits nothing that is pending)
stopTwice ==
    /\ priceRefreshInterval' = FALSE
    /\ act' = [act EXCEPT ![StopAct].pc = "cancelRead", ![SecondStopAct].pc = "cancelRead"]
    /\ UNCHANGED <<lastMidPrice, isProcessing, useBinancePrice, ticks, skippedTicks,
                   openOrders, nextOrderId, disturbances>>

\* startTradingBots() returns, 10 s and more after startMarketMaker(): with a
\* PRIVATE_KEY_TRADER_BOT_1 it has started the bots and called setupShutdownHandlers(),
\* without one it has returned before that
StartTradingBots(keys) ==
    /\ manager.pc = "running"
    /\ manager.bots = "none"
    /\ manager' = IF keys
                  THEN [manager EXCEPT !.bots = "started", !.handlers = @ + 1]
                  ELSE [manager EXCEPT !.bots = "nokeys"]
    /\ UNCHANGED <<exited, tradingInterval, trade, tradeTicks, directWrites, config, ladder, refreshes>>

\* SIGINT or SIGTERM: every handler registered for it runs shutdown(), which awaits
\* marketMaker.stop()
Signal ==
    /\ manager.pc = "running"
    /\ IF manager.handlers = 1 THEN stop ELSE stopTwice
    /\ manager' = [manager EXCEPT !.pc = "stopping"]
    /\ UNCHANGED <<exited, tradingInterval, trade, tradeTicks, directWrites, config, ladder, refreshes>>

\* a signal handler that leaves the process running when shutdown() has returned
ExitNever == UNCHANGED lifeVars

\* the rest of the signal handler, conjoined with the steps of cancelAllOrders: the
\* step in which stop() returns resumes shutdown() and the handler, which calls
\* process.exit(0) before the event loop takes any other callback
Exit ==
    IF \E s \in StopActs : act[s].pc # "stopped" /\ act'[s].pc = "stopped"
    THEN /\ manager' = [manager EXCEPT !.pc = "stopped"]
         /\ exited' = TRUE
         /\ UNCHANGED <<tradingInterval, trade, tradeTicks, directWrites, config, ladder, refreshes>>
    ELSE UNCHANGED lifeVars

(***************************************************************************)
(* The cloud configuration and placeMakerOrders().                         *)
(***************************************************************************)
\* a key the answer of the cloud does not hold (or holds with an empty value)
NoValue == 0
\* the answers of the cloud: per key no value or a value, in the units of InitialConfig
CloudData ==
    [MAX_ORDERS_PER_SIDE : {NoValue, 1, MaxOrdersPerSide + 1},
     SPREAD_PERCENTAGE : {NoValue, 3},
     PRICE_STEP_PERCENTAGE : {NoValue, 2},
     ORDER_SIZE : {NoValue, 2}]

\* updateByCloud after its awaits: if (dataObj.KEY) config.key = Number(dataObj.KEY), key
\* by key, on the one config object
updateByCloud(data) ==
    /\ refreshes < MaxRefreshes
    /\ refreshes' = refreshes + 1
    /\ config' =
         [maxOrdersPerSide |-> IF data.MAX_ORDERS_PER_SIDE # NoValue
                               THEN data.MAX_ORDERS_PER_SIDE ELSE config.maxOrdersPerSide,
          spreadPercentage |-> IF data.SPREAD_PERCENTAGE # NoValue
                               THEN data.SPREAD_PERCENTAGE ELSE config.spreadPercentage,
          priceStepPercentage |-> IF data.PRICE_STEP_PERCENTAGE # NoValue
                                  THEN data.PRICE_STEP_PERCENTAGE
                                  ELSE config.priceStepPercentage,
          orderSize |-> IF data.ORDER_SIZE # NoValue
                        THEN data.ORDER_SIZE ELSE config.orderSize]
    /\ UNCHANGED <<manager, exited, tradingInterval, trade, tradeTicks, directWrites,
                   ladder>>

\* BigInt(Math.round(percentage * 100)), the percentage being in tenths of a percent
BasisPoints(percentage) == percentage * 10

\* the body of a loop of placeMakerOrders up to its await: the price offset of rung i
\* and placeOrder(side, price, config.orderSize)
SubmitRung(l, side, i) ==
    [l EXCEPT !.pc = side,
              !.i = i,
              !.placed = Append(@, [side |-> side,
                                    index |-> i,
                                    totalBasisPoints |-> l.spreadBasisPoints
                                                           + l.priceStepBasisPoints * i,
                                    quantity |-> config.orderSize,
                                    maxOrdersPerSide |-> config.maxOrdersPerSide])]

\* the test i < this.config.maxOrdersPerSide of the loop of one side and what follows
\* it: the next rung, the loop of the other side, or the return
LoopTest(l, side, i) ==
    IF i < config.maxOrdersPerSide
    THEN SubmitRung(l, side, i)
    ELSE IF side = "BUY" /\ 0 < config.maxOrdersPerSide
    THEN SubmitRung(l, "SELL", 0)
    ELSE [l EXCEPT !.pc = "done"]

\* placeMakerOrders() with a mid price, up to its first await
placeMakerOrdersCall ==
    /\ ladder.pc = "idle"
    /\ ladder' = LoopTest([ladder EXCEPT
                              !.spreadBasisPoints = BasisPoints(config.spreadPercentage),
                              !.priceStepBasisPoints =
                                   BasisPoints(config.priceStepPercentage)],
                          "BUY", 0)
    /\ UNCHANGED <<manager, exited, tradingInterval, trade, tradeTicks, directWrites,
                   config, refreshes>>

\* await this.placeOrder(...) returns, the send having resolved or rejected: i++
placeOrderReturn ==
    /\ ladder.pc \in {"BUY", "SELL"}
    /\ ladder' = LoopTest(ladder, ladder.pc, ladder.i + 1)
    /\ UNCHANGED <<manager, exited, tradingInterval, trade, tradeTicks, directWrites,
                   config, refreshes>>

(***************************************************************************)
(* TradingBot: start(), the interval, executeTrade() and stop().           *)
(***************************************************************************)
\* prices of getBestPrice: none (an empty side, or a failed read) or a price
BestPrices == {0, 2000}

\* getCurrentPrice(): the middle of the two, the one there is, or null (0 here)
getCurrentPrice(bid, ask) ==
    IF bid > 0 /\ ask > 0 THEN (bid + ask) \div 2
    ELSE IF bid > 0 THEN bid
    ELSE IF ask > 0 THEN ask
    ELSE 0

\* what a market order's send may fail with: a nonce-class error, a revert
AgentErrors == {<<"nonce", "too", "low">>, <<"execution", "reverted">>}

\* start(): setInterval
AgentStart ==
    /\ ~tradingInterval
    /\ tradeTicks = 0
    /\ tradingInterval' = TRUE
    /\ UNCHANGED <<manager, exited, trade, tradeTicks, directWrites, config, ladder, refreshes>>

\* the interval fires: executeTrade() up to getBestPrice(Side.BUY)
TradeTick(maxTicks) ==
    /\ tradingInterval
    /\ tradeTicks < maxTicks
    /\ tradeTicks' = tradeTicks + 1
    /\ trade' = [trade EXCEPT ![tradeTicks + 1].pc = "bid"]
    /\ UNCHANGED <<manager, exited, tradingInterval, directWrites, config, ladder, refreshes>>

\* getBestPrice(Side.BUY) returns; getBestPrice(Side.SELL) is awaited
BestBidReturn(t, price) ==
    /\ trade[t].pc = "bid"
    /\ trade' = [trade EXCEPT ![t].pc = "ask", ![t].bid = price]
    /\ UNCHANGED <<manager, exited, tradingInterval, tradeTicks, directWrites, config, ladder, refreshes>>

\* an executeTrade that trades without a current price
BestAskReturnAlwaysTrades(t, price) ==
    /\ trade[t].pc = "ask"
    /\ trade' = [trade EXCEPT ![t].pc = "queued", ![t].ask = price,
                              ![t].id = submitted + 1]
    /\ Submit(AgentTicks)
    /\ UNCHANGED <<manager, exited, tradingInterval, tradeTicks, directWrites, config, ladder, refreshes>>

\* getBestPrice(Side.SELL) returns to the executeTrade of src/unnamed/part_013:
\* without a current price it returns, else it calls
\* contractService.placeMarketOrderWithDeposit, which queues the send
BestAskReturn(t, price) ==
    /\ trade[t].pc = "ask"
    /\ IF getCurrentPrice(trade[t].bid, price) = 0
       THEN /\ trade' = [trade EXCEPT ![t].pc = "skipped", ![t].ask = price]
            /\ UNCHANGED queueVars
       ELSE /\ trade' = [trade EXCEPT ![t].pc = "queued", ![t].ask = price,
                                      ![t].id = submitted + 1]
            /\ Submit(AgentTicks)
    /\ UNCHANGED <<manager, exited, tradingInterval, tradeTicks, directWrites, config, ladder, refreshes>>

\* the promise of placeMarketOrderWithDeposit settles: executeTrade logs and returns
TradeSettled(t) ==
    /\ trade[t].pc = "queued"
    /\ task[trade[t].id].pc \in {"resolved", "rejected"}
    /\ trade' = [trade EXCEPT ![t].pc = "done"]
    /\ UNCHANGED <<manager, exited, tradingInterval, tradeTicks, directWrites, config, ladder, refreshes>>

\* getBestPrice(Side.SELL) returns to the executeTrade of
\* src/src/services/tradingBot.ts: without a mid price it returns, else it calls
\* this.walletClient.writeContract itself
BestAskReturnDirect(t, price) ==
    /\ trade[t].pc = "ask"
    /\ IF getCurrentPrice(trade[t].bid, price) = 0
       THEN /\ trade' = [trade EXCEPT ![t].pc = "skipped", ![t].ask = price]
            /\ UNCHANGED directWrites
       ELSE /\ trade' = [trade EXCEPT ![t].pc = "writing", ![t].ask = price]
            /\ directWrites' = directWrites + 1
    /\ UNCHANGED <<manager, exited, tradingInterval, tradeTicks, config, ladder, refreshes>>

\* that writeContract returns or throws: executeTrade logs and returns
DirectWriteDone(t) ==
    /\ trade[t].pc = "writing"
    /\ trade' = [trade EXCEPT ![t].pc = "done"]
    /\ UNCHANGED <<manager, exited, tradingInterval, tradeTicks, directWrites, config, ladder, refreshes>>

\* SIGINT or SIGTERM with trading bots and no market maker: shutdown() awaits
\* bot.stop(), which clears the interval and awaits nothing, then process.exit(0)
SignalAgents ==
    /\ tradingInterval
    /\ tradingInterval' = FALSE
    /\ exited' = TRUE
    /\ UNCHANGED <<manager, trade, tradeTicks, directWrites, config, ladder, refreshes>>

Next ==
    \/ Submit(MaxSubmissions) /\ UNCHANGED <<makerVars, calc, lifeVars>>
    \/ DrainTimerFire /\ UNCHANGED <<makerVars, calc, lifeVars>>
    \/ \E id \in Ids : InitFetchReturn(id) /\ UNCHANGED <<makerVars, calc, lifeVars>>
    \/ \E id \in Ids : InitFetchFail(id, MaxFaults) /\ UNCHANGED <<makerVars, calc, lifeVars>>
    \/ \E id \in Ids : ChainAccept(id) /\ UNCHANGED <<makerVars, calc, lifeVars>>
    \/ \E id \in Ids : SendSuccess(id) /\ UNCHANGED <<makerVars, calc, lifeVars>>
    \/ \E id \in Ids, msg \in ErrorMessages : SendFail(id, msg, MaxFaults) /\ UNCHANGED <<makerVars, calc, lifeVars>>
    \/ \E id \in Ids : RefetchReturn(id) /\ UNCHANGED <<makerVars, calc, lifeVars>>
    \/ \E id \in Ids : RefetchFail(id, MaxFaults + 1) /\ UNCHANGED <<makerVars, calc, lifeVars>>
    \/ \E id \in Ids : BackoffDone(id) /\ UNCHANGED <<makerVars, calc, lifeVars>>
    \/ ResyncReturn /\ UNCHANGED <<makerVars, calc, lifeVars>>
    \/ ResyncFail(MaxFaults) /\ UNCHANGED <<makerVars, calc, lifeVars>>

\* one queue, many submissions, nobody else sending from the account, and MaxFaults
\* faults, where the re-fetch that follows a failed send may fail as well
Spec == Init /\ [][Next]_vars

RetryNext ==
    \/ Submit(RetrySubmissions) /\ UNCHANGED <<makerVars, calc, lifeVars>>
    \/ DrainTimerFire /\ UNCHANGED <<makerVars, calc, lifeVars>>
    \/ \E id \in Ids : InitFetchReturn(id) /\ UNCHANGED <<makerVars, calc, lifeVars>>
    \/ \E id \in Ids : InitFetchFail(id, RetryFaults) /\ UNCHANGED <<makerVars, calc, lifeVars>>
    \/ \E id \in Ids : ChainAccept(id) /\ UNCHANGED <<makerVars, calc, lifeVars>>
    \/ \E id \in Ids : SendSuccess(id) /\ UNCHANGED <<makerVars, calc, lifeVars>>
    \/ \E id \in Ids, msg \in ErrorMessages : SendFail(id, msg, RetryFaults) /\ UNCHANGED <<makerVars, calc, lifeVars>>
    \/ \E id \in Ids : RefetchReturn(id) /\ UNCHANGED <<makerVars, calc, lifeVars>>
    \/ \E id \in Ids : RefetchFail(id, RetryFaults) /\ UNCHANGED <<makerVars, calc, lifeVars>>
    \/ \E id \in Ids : BackoffDone(id) /\ UNCHANGED <<makerVars, calc, lifeVars>>
    \/ ExternalTx(MaxExternalTxs) /\ UNCHANGED <<makerVars, calc, lifeVars>>

\* one queue, few submissions, enough faults to exhaust the retries of one, and
\* transactions sent from the account by somebody else
RetrySpec == Init /\ [][RetryNext]_vars

\* what the event loop does to one submission once it is at the head of the queue
InitFetchDone(id) ==
    (InitFetchReturn(id) \/ InitFetchFail(id, LiveFaults)) /\ UNCHANGED <<makerVars, calc, lifeVars>>
SendDone(id) ==
    (ChainAccept(id) \/ \E msg \in ErrorMessages : SendFail(id, msg, LiveFaults))
        /\ UNCHANGED <<makerVars, calc, lifeVars>>
SendReturned(id) == SendSuccess(id) /\ UNCHANGED <<makerVars, calc, lifeVars>>
RefetchDone(id) ==
    (RefetchReturn(id) \/ RefetchFail(id, LiveFaults)) /\ UNCHANGED <<makerVars, calc, lifeVars>>
BackoffFired(id) == BackoffDone(id) /\ UNCHANGED <<makerVars, calc, lifeVars>>
DrainFired == DrainTimerFire /\ UNCHANGED <<makerVars, calc, lifeVars>>

LiveNext ==
    \/ Submit(LiveSubmissions) /\ UNCHANGED <<makerVars, calc, lifeVars>>
    \/ DrainFired
    \/ \E id \in Ids : InitFetchDone(id)
    \/ \E id \in Ids : SendDone(id)
    \/ \E id \in Ids : SendReturned(id)
    \/ \E id \in Ids : RefetchDone(id)
    \/ \E id \in Ids : BackoffFired(id)

\* every awaited chain call returns or throws and every timer fires; the callers
\* submit when they like
LiveFairness ==
    /\ WF_vars(DrainFired)
    /\ \A id \in 1..LiveSubmissions :
         /\ WF_vars(InitFetchDone(id))
         /\ WF_vars(SendDone(id))
         /\ WF_vars(SendReturned(id))
         /\ WF_vars(RefetchDone(id))
         /\ WF_vars(BackoffFired(id))

ConfigNext ==
    \/ placeMakerOrdersCall /\ UNCHANGED <<queueVars, makerVars, calc>>
    \/ placeOrderReturn /\ UNCHANGED <<queueVars, makerVars, calc>>
    \/ \E data \in CloudData : updateByCloud(data) /\ UNCHANGED <<queueVars, makerVars, calc>>

\* one placeMakerOrders call of a market maker that has a mid price, and the refresh
\* timer of the orchestrator
ConfigSpec == Init /\ [][ConfigNext]_vars

\* one queue, few submissions, enough faults to exhaust the retries of one, under
\* an event loop that completes what it awaits
LiveSpec == Init /\ [][LiveNext]_vars /\ LiveFairness

CycleNext ==
    \/ MakerStart /\ UNCHANGED <<queueVars, calc, lifeVars>>
    \/ \E a \in Acts : CancelReadReturn(a) /\ UNCHANGED <<queueVars, calc, lifeVars>>
    \/ \E a \in Acts : CancelReadFail(a) /\ UNCHANGED <<queueVars, calc, lifeVars>>
    \/ \E a \in Acts : CancelOk(a) /\ UNCHANGED <<queueVars, calc, lifeVars>>
    \/ \E a \in Acts : CancelFail(a) /\ UNCHANGED <<queueVars, calc, lifeVars>>
    \/ \E a \in Acts, answer \in BinanceAnswers : BinanceReturn(a, answer) /\ UNCHANGED <<queueVars, calc, lifeVars>>
    \/ \E a \in Acts, answer \in ChainlinkAnswers : ChainlinkReturn(a, answer) /\ UNCHANGED <<queueVars, calc, lifeVars>>
    \/ \E a \in Acts : MarketDataReturn(a) /\ UNCHANGED <<queueVars, calc, lifeVars>>
    \/ \E a \in Acts : FillReadReturn(a) /\ UNCHANGED <<queueVars, calc, lifeVars>>
    \/ \E a \in Acts : FillReadFail(a) /\ UNCHANGED <<queueVars, calc, lifeVars>>
    \/ \E a \in Acts : PlaceOk(a) /\ UNCHANGED <<queueVars, calc, lifeVars>>
    \/ \E a \in Acts : PlaceFail(a) /\ UNCHANGED <<queueVars, calc, lifeVars>>
    \/ Tick(MaxTicks) /\ UNCHANGED <<queueVars, calc, lifeVars>>
    \/ OrderFilled /\ UNCHANGED <<queueVars, calc, lifeVars>>

\* one market maker: start() and the cycles its timer runs
CycleSpec == Init /\ [][CycleNext]_vars

QuietNext ==
    \/ MakerStart /\ UNCHANGED <<queueVars, calc, lifeVars>>
    \/ \E a \in Acts : CancelReadReturn(a) /\ UNCHANGED <<queueVars, calc, lifeVars>>
    \/ \E a \in Acts : CancelOk(a) /\ UNCHANGED <<queueVars, calc, lifeVars>>
    \/ \E a \in Acts, answer \in BinanceAnswers : BinanceReturn(a, answer) /\ UNCHANGED <<queueVars, calc, lifeVars>>
    \/ \E a \in Acts, answer \in ChainlinkAnswers : ChainlinkReturn(a, answer) /\ UNCHANGED <<queueVars, calc, lifeVars>>
    \/ \E a \in Acts : MarketDataReturn(a) /\ UNCHANGED <<queueVars, calc, lifeVars>>
    \/ \E a \in Acts : FillReadReturn(a) /\ UNCHANGED <<queueVars, calc, lifeVars>>
    \/ \E a \in Acts : PlaceOk(a) /\ UNCHANGED <<queueVars, calc, lifeVars>>
    \/ Tick(QuietTicks) /\ UNCHANGED <<queueVars, calc, lifeVars>>

\* one market maker over more ticks, when no call to the exchange fails and no order
\* is filled
QuietSpec == Init /\ [][QuietNext]_vars

PriceNext ==
    \/ MakerStart /\ UNCHANGED <<queueVars, calc, lifeVars>>
    \/ \E a \in Acts : CancelReadReturn(a) /\ UNCHANGED <<queueVars, calc, lifeVars>>
    \/ \E a \in Acts : CancelOk(a) /\ UNCHANGED <<queueVars, calc, lifeVars>>
    \/ \E a \in Acts, answer \in BinanceAnswers : BinanceReturn(a, answer) /\ UNCHANGED <<queueVars, calc, lifeVars>>
    \/ \E a \in Acts, answer \in FeedAnswers : ChainlinkReturnThenDefault(a, answer) /\ UNCHANGED <<queueVars, calc, lifeVars>>
    \/ \E a \in Acts : MarketDataReturn(a) /\ UNCHANGED <<queueVars, calc, lifeVars>>
    \/ \E a \in Acts : FillReadReturn(a) /\ UNCHANGED <<queueVars, calc, lifeVars>>
    \/ \E a \in Acts : PlaceOk(a) /\ UNCHANGED <<queueVars, calc, lifeVars>>
    \/ Tick(QuietTicks) /\ UNCHANGED <<queueVars, calc, lifeVars>>

\* the market maker whose updateMarketData falls back to a configured default price,
\* with a price feed that may answer below zero and no call failing
PriceSpec == Init /\ [][PriceNext]_vars

\* the oldest pending cancelOrder of a is for an order no longer open
OrderGone(a) ==
    /\ act[a].pc = "cancelWait"
    /\ \A o \in openOrders : o.id # Head(act[a].pendingCancels)

LifecycleNext ==
    \/ \E tokensDefined \in TokenConfigs :
          ~exited /\ StartMarketMaker(tokensDefined) /\ UNCHANGED <<queueVars, makerVars, calc>>
    \/ \E found \in BOOLEAN :
          ~exited /\ VerifyPoolDone(found) /\ UNCHANGED <<queueVars, calc>>
    \/ ~exited /\ DecimalsDone /\ UNCHANGED <<queueVars, makerVars, calc>>
    \/ \E ok \in BOOLEAN :
          ~exited /\ SetupDone(ok) /\ UNCHANGED <<queueVars, calc>>
    \/ ~exited /\ StartReturn /\ UNCHANGED <<queueVars, makerVars, calc>>
    \/ ~exited /\ Signal /\ UNCHANGED <<queueVars, calc>>
    \/ \E a \in Acts :
          ~exited /\ CancelReadReturn(a) /\ Exit /\ UNCHANGED <<queueVars, calc>>
    \/ ~exited /\ CancelReadFail(StopAct) /\ Exit /\ UNCHANGED <<queueVars, calc>>
    \/ \E a \in Acts :
          ~exited /\ CancelOk(a) /\ Exit /\ UNCHANGED <<queueVars, calc>>
    \/ \E a \in Acts :
          ~exited /\ OrderGone(a) /\ CancelFail(a) /\ Exit /\ UNCHANGED <<queueVars, calc>>
    \/ \E a \in Acts, answer \in BinanceAnswers :
          ~exited /\ BinanceReturn(a, answer) /\ UNCHANGED <<queueVars, calc, lifeVars>>
    \/ \E a \in Acts, answer \in ChainlinkAnswers :
          ~exited /\ ChainlinkReturn(a, answer) /\ UNCHANGED <<queueVars, calc, lifeVars>>
    \/ \E a \in Acts :
          ~exited /\ MarketDataReturn(a) /\ UNCHANGED <<queueVars, calc, lifeVars>>
    \/ \E a \in Acts :
          ~exited /\ FillReadReturn(a) /\ UNCHANGED <<queueVars, calc, lifeVars>>
    \/ \E a \in Acts :
          ~exited /\ PlaceOk(a) /\ UNCHANGED <<queueVars, calc, lifeVars>>
    \/ ~exited /\ Tick(LifeTicks) /\ UNCHANGED <<queueVars, calc, lifeVars>>

\* the orchestrator starts one market maker and shuts it down on a signal; of the
\* market maker's calls only the open-order read of stop() may fail, and a cancel
\* whose order another pass has cancelled already
LifecycleSpec == Init /\ [][LifecycleNext]_vars

AllNext ==
    \/ \E tokensDefined \in TokenConfigs :
          ~exited /\ StartMarketMaker(tokensDefined) /\ UNCHANGED <<queueVars, makerVars, calc>>
    \/ \E found \in BOOLEAN :
          ~exited /\ VerifyPoolDone(found) /\ UNCHANGED <<queueVars, calc>>
    \/ ~exited /\ DecimalsDone /\ UNCHANGED <<queueVars, makerVars, calc>>
    \/ \E ok \in BOOLEAN :
          ~exited /\ SetupDone(ok) /\ UNCHANGED <<queueVars, calc>>
    \/ ~exited /\ StartReturn /\ UNCHANGED <<queueVars, makerVars, calc>>
    \/ \E keys \in BOOLEAN :
          ~exited /\ StartTradingBots(keys) /\ UNCHANGED <<queueVars, makerVars, calc>>
    \/ ~exited /\ Signal /\ UNCHANGED <<queueVars, calc>>
    \/ \E a \in Acts :
          ~exited /\ CancelReadReturn(a) /\ Exit /\ UNCHANGED <<queueVars, calc>>
    \/ \E a \in Acts :
          ~exited /\ CancelOk(a) /\ Exit /\ UNCHANGED <<queueVars, calc>>
    \/ \E a \in Acts :
          ~exited /\ OrderGone(a) /\ CancelFail(a) /\ Exit /\ UNCHANGED <<queueVars, calc>>
    \/ \E a \in Acts, answer \in BinanceAnswers :
          ~exited /\ BinanceReturn(a, answer) /\ UNCHANGED <<queueVars, calc, lifeVars>>
    \/ \E a \in Acts, answer \in ChainlinkAnswers :
          ~exited /\ ChainlinkReturn(a, answer) /\ UNCHANGED <<queueVars, calc, lifeVars>>
    \/ \E a \in Acts :
          ~exited /\ MarketDataReturn(a) /\ UNCHANGED <<queueVars, calc, lifeVars>>
    \/ \E a \in Acts :
          ~exited /\ FillReadReturn(a) /\ UNCHANGED <<queueVars, calc, lifeVars>>
    \/ \E a \in Acts :
          ~exited /\ PlaceOk(a) /\ UNCHANGED <<queueVars, calc, lifeVars>>

\* mode 'all': the orchestrator starts the market maker, then the trading bots, of
\* which only the registration of their shutdown handlers is kept, and shuts down on
\* a signal that arrives between two cycles; no read of the exchange fails
AllSpec == Init /\ [][AllNext]_vars

AgentNext ==
    \/ ~exited /\ AgentStart /\ UNCHANGED <<queueVars, makerVars, calc>>
    \/ ~exited /\ TradeTick(AgentTicks) /\ UNCHANGED <<queueVars, makerVars, calc>>
    \/ \E t \in Trades, price \in BestPrices :
          ~exited /\ BestBidReturn(t, price) /\ UNCHANGED <<queueVars, makerVars, calc>>
    \/ \E t \in Trades, price \in BestPrices :
          ~exited /\ BestAskReturn(t, price) /\ UNCHANGED <<makerVars, calc>>
    \/ \E t \in Trades :
          ~exited /\ TradeSettled(t) /\ UNCHANGED <<queueVars, makerVars, calc>>
    \/ ~exited /\ SignalAgents /\ UNCHANGED <<queueVars, makerVars, calc>>
    \/ ~exited /\ DrainTimerFire /\ UNCHANGED <<makerVars, calc, lifeVars>>
    \/ \E id \in Ids :
          ~exited /\ InitFetchReturn(id) /\ UNCHANGED <<makerVars, calc, lifeVars>>
    \/ \E id \in Ids :
          ~exited /\ InitFetchFail(id, AgentFaults) /\ UNCHANGED <<makerVars, calc, lifeVars>>
    \/ \E id \in Ids :
          ~exited /\ ChainAccept(id) /\ UNCHANGED <<makerVars, calc, lifeVars>>
    \/ \E id \in Ids :
          ~exited /\ SendSuccess(id) /\ UNCHANGED <<makerVars, calc, lifeVars>>
    \/ \E id \in Ids, msg \in AgentErrors :
          ~exited /\ SendFail(id, msg, AgentFaults) /\ UNCHANGED <<makerVars, calc, lifeVars>>
    \/ \E id \in Ids :
          ~exited /\ RefetchReturn(id) /\ UNCHANGED <<makerVars, calc, lifeVars>>
    \/ \E id \in Ids :
          ~exited /\ RefetchFail(id, AgentFaults + 1) /\ UNCHANGED <<makerVars, calc, lifeVars>>
    \/ \E id \in Ids :
          ~exited /\ BackoffDone(id) /\ UNCHANGED <<makerVars, calc, lifeVars>>

\* one trading agent of src/unnamed/part_013 with its queue, shut down on a signal
AgentSpec == Init /\ [][AgentNext]_vars

DirectNext ==
    \/ ~exited /\ AgentStart /\ UNCHANGED <<queueVars, makerVars, calc>>
    \/ ~exited /\ TradeTick(AgentTicks) /\ UNCHANGED <<queueVars, makerVars, calc>>
    \/ \E t \in Trades, price \in BestPrices :
          ~exited /\ BestBidReturn(t, price) /\ UNCHANGED <<queueVars, makerVars, calc>>
    \/ \E t \in Trades, price \in BestPrices :
          ~exited /\ BestAskReturnDirect(t, price) /\ UNCHANGED <<queueVars, makerVars, calc>>
    \/ \E t \in Trades :
          ~exited /\ DirectWriteDone(t) /\ UNCHANGED <<queueVars, makerVars, calc>>
    \/ ~exited /\ SignalAgents /\ UNCHANGED <<queueVars, makerVars, calc>>

\* one trading agent of src/src/services/tradingBot.ts, shut down on a signal
DirectSpec == Init /\ [][DirectNext]_vars

(***************************************************************************)
(* The market maker's pure functions, applied to inputs of their domains.  *)
(***************************************************************************)
\* old prices: small ones, whose quotients have fractions, and $2000
DeviationOldPrices == {BigOfInt(1), BigOfInt(3), BigOfInt(7), Price2000}
\* new prices: small ones, the boundary prices and 210000000001
DeviationNewPrices ==
    {BigOfInt(1), BigOfInt(2), BigOfInt(4), BigOfInt(7), Price2100, Price2102,
     BigOf(<<2100, 0, 1>>)}
\* values of config.priceDeviationThresholdBps
Thresholds == {0, 1, 500, 3333, 10000}

\* isPriceDeviationSignificant(oldPrice, newPrice) under a configured threshold
Classify(oldPrice, newPrice, thresholdBps) ==
    /\ calc = NoCalc
    /\ calc' = [fn |-> "isPriceDeviationSignificant",
                oldPrice |-> oldPrice, newPrice |-> newPrice,
                thresholdBps |-> thresholdBps,
                result |-> isPriceDeviationSignificantAt(oldPrice, newPrice, thresholdBps)]
    /\ UNCHANGED <<queueVars, makerVars, lifeVars>>

\* private readonly PRICE_DECIMALS = 8
PRICE_DECIMALS == 8
\* const minPriceIncrement = 10000n
minPriceIncrement == 10000

RECURSIVE Pow10(_)
\* BigInt(10 ** n)
Pow10(n) == IF n = 0 THEN BigOfInt(1) ELSE BigMul(BigOfInt(10), Pow10(n - 1))

\* a rung price that divides by 10000 before it multiplies by the basis points
placeMakerOrdersPriceDivideFirst(side, mid, spreadBasisPoints, priceStepBasisPoints, i) ==
    LET totalBasisPoints == BigAdd(BigOfInt(spreadBasisPoints),
                                   BigMul(BigOfInt(priceStepBasisPoints), BigOfInt(i)))
        offset == BigMul(BigDiv(mid, BigOfInt(10000)), totalBasisPoints)
    IN  IF side = "BUY" THEN BigSub(mid, offset) ELSE BigAdd(mid, offset)

\* ContractService.formatPrice: the 8-decimal price in the decimals of the quote token
formatPrice(price, quoteDecimals) ==
    IF quoteDecimals = PRICE_DECIMALS THEN price
    ELSE IF quoteDecimals < PRICE_DECIMALS
         THEN BigDiv(price, Pow10(PRICE_DECIMALS - quoteDecimals))
         ELSE BigMul(price, Pow10(quoteDecimals - PRICE_DECIMALS))

\* a rounding to the nearest multiple of the increment, halves upwards
roundToNearestPriceIncrementHalfUp(price) ==
    BigMul(BigDiv(BigAdd(price, BigOfInt(minPriceIncrement \div 2)),
                  BigOfInt(minPriceIncrement)),
           BigOfInt(minPriceIncrement))

\* roundToNearestPriceIncrement: (price / minPriceIncrement) * minPriceIncrement
roundToNearestPriceIncrement(price) ==
    BigMul(BigDiv(price, BigOfInt(minPriceIncrement)), BigOfInt(minPriceIncrement))

\* placeMakerOrders: the price of rung i of a side before formatting
\*   totalBasisPoints = spreadBasisPoints + priceStepBasisPoints * BigInt(i)
\*   lastMidPrice -/+ (lastMidPrice * totalBasisPoints / 10000n)
placeMakerOrdersPrice(side, mid, spreadBasisPoints, priceStepBasisPoints, i) ==
    LET totalBasisPoints == BigAdd(BigOfInt(spreadBasisPoints),
                                   BigMul(BigOfInt(priceStepBasisPoints), BigOfInt(i)))
        offset == BigDiv(BigMul(mid, totalBasisPoints), BigOfInt(10000))
    IN  IF side = "BUY" THEN BigSub(mid, offset) ELSE BigAdd(mid, offset)

\* fillMissingOrders: the price of the rung at a position before formatting
\*   totalBasisPoints = spreadBasisPoints + priceStepBasisPoints * BigInt(position)
fillMissingOrdersPrice(side, mid, spreadBasisPoints, priceStepBasisPoints, position) ==
    LET totalBasisPoints == BigAdd(BigOfInt(spreadBasisPoints),
                                   BigMul(BigOfInt(priceStepBasisPoints), BigOfInt(position)))
        offset == BigDiv(BigMul(mid, totalBasisPoints), BigOfInt(10000))
    IN  IF side = "BUY" THEN BigSub(mid, offset) ELSE BigAdd(mid, offset)

\* mid prices: 2000, 2100 and 2102.00010001 dollars, and 2000.00012345
QuoteMids == {Price2000, Price2100, Price2102, BigOf(<<2000, 1, 2345>>)}
\* BigInt(Math.round(config.spreadPercentage * 100)): 0.2 and 0.37 percent
SpreadBps == {20, 37}
\* BigInt(Math.round(config.priceStepPercentage * 100)): 0.1 and 0.25 percent
StepBps == {10, 25}
\* decimals of the quote token: below, at and above PRICE_DECIMALS
QuoteDecimals == {6, 8, 18}

\* one rung priced by placeMakerOrders and by fillMissingOrders, and the price each
\* hands to placeOrder
Quote(side, mid, spreadBps, stepBps, position, quoteDecimals) ==
    /\ calc = NoCalc
    /\ calc' = [fn |-> "price", side |-> side, mid |-> mid, spreadBps |-> spreadBps,
                stepBps |-> stepBps, position |-> position,
                quoteDecimals |-> quoteDecimals,
                replacePrice |-> placeMakerOrdersPrice(side, mid, spreadBps, stepBps,
                                                       position),
                fillPrice |-> fillMissingOrdersPrice(side, mid, spreadBps, stepBps,
                                                     position),
                replaceSubmitted |-> roundToNearestPriceIncrement(formatPrice(
                    placeMakerOrdersPrice(side, mid, spreadBps, stepBps, position),
                    quoteDecimals)),
                fillSubmitted |-> roundToNearestPriceIncrement(formatPrice(
                    fillMissingOrdersPrice(side, mid, spreadBps, stepBps, position),
                    quoteDecimals))]
    /\ UNCHANGED <<queueVars, makerVars, lifeVars>>

\* const stalePriceThreshold = 3600; // 1 hour
stalePriceThreshold == 3600
\* updatedAt of latestRoundData, in seconds
FeedUpdates == {1000, 5000}
\* Date.now() minus the feed's update time, in milliseconds
FeedAgesMs == {0 - 5000, 0, 3599000, 3600000, 3600999, 3601000, 7200000}

\* a feed read that rejects an answer as old as the threshold
fetchChainlinkPriceNonStrict(answer, updatedAt, nowMs) ==
    LET timestamp == nowMs \div 1000 IN
    IF timestamp - updatedAt >= stalePriceThreshold THEN BigZero ELSE answer

\* fetchChainlinkPrice() once latestRoundData has returned (answer, updatedAt) and
\* Date.now() has returned nowMs: the thrown 'Chainlink price is stale' is caught
\* and answered with 0n
fetchChainlinkPrice(answer, updatedAt, nowMs) ==
    LET timestamp == nowMs \div 1000 IN
    IF timestamp - updatedAt > stalePriceThreshold THEN BigZero ELSE answer

\* one read of the price feed
FeedRead(answer, updatedAt, ageMs) ==
    /\ calc = NoCalc
    /\ calc' = [fn |-> "feed", answer |-> answer, updatedAt |-> updatedAt,
                nowMs |-> updatedAt * 1000 + ageMs,
                result |-> fetchChainlinkPrice(answer, updatedAt,
                                               updatedAt * 1000 + ageMs)]
    /\ UNCHANGED <<queueVars, makerVars, lifeVars>>

FormulaNext ==
    \/ \E answer \in FeedAnswers, updatedAt \in FeedUpdates, ageMs \in FeedAgesMs :
          FeedRead(answer, updatedAt, ageMs)
    \/ \E oldPrice \in DeviationOldPrices, newPrice \in DeviationNewPrices,
          thresholdBps \in Thresholds : Classify(oldPrice, newPrice, thresholdBps)
    \/ \E side \in {"BUY", "SELL"}, mid \in QuoteMids, spreadBps \in SpreadBps,
          stepBps \in StepBps, position \in 0..MaxPosition,
          quoteDecimals \in QuoteDecimals :
            Quote(side, mid, spreadBps, stepBps, position, quoteDecimals)

\* the pure functions of the market maker, one evaluation per behaviour
FormulaSpec == Init /\ [][FormulaNext]_vars

(***************************************************************************)
(* Properties of the queue.                                                *)
(***************************************************************************)
\* the txFactory of the submission has been called and has not returned
Executing(id) == task[id].pc \in {"inflight", "accepted"}
\* the wrapper of the submission is running (processQueue awaits it)
Active(id) == task[id].pc \in {"initFetch", "inflight", "accepted", "refetch", "backoff"}
Terminal(id) == task[id].pc \in {"resolved", "rejected"}
InQueue(id) == \E i \in 1..Len(transactionQueue) : transactionQueue[i] = id
NonceClassMessages ==
    { <<"nonce", "too", "low">>,
      <<"replacement", "transaction", "underpriced">>,
      <<"already", "known">> }
BackoffSchedule == <<1000, 2000, 4000, 8000, 16000>>

\* C1: with nobody else sending from the account, the local nonces in effect at the
\* accepted sends are consecutive integers: each is the previous one plus 1.
C1_NonceMonotonic ==
    externalTxs = 0 =>
        \A i \in 1..(Len(acceptedLog) - 1) :
            acceptedLog[i + 1].local = acceptedLog[i].local + 1

\* C2: at most one txFactory invocation of the queue is executing; more, at most one
\* wrapper is running, and only while processingQueue is true.
C2_AtMostOneInFlight ==
    /\ Cardinality({id \in Ids : Executing(id)}) <= 1
    /\ Cardinality({id \in Ids : Active(id)}) <= 1
    /\ (\E id \in Ids : Active(id)) => processingQueue

\* a send is executing while the 100 ms drain timer is pending and wrappers are queued
C2_Witness ==
    \E id \in Ids :
        /\ Executing(id)
        /\ drainTimers > 0
        /\ Len(transactionQueue) > 0

\* C3: submissions are sent in the order of their queueTransaction calls: the queue holds
\* the waiting ones oldest first, and a submission is not started, and its txFactory not
\* invoked, before every earlier submission is terminally resolved.
C3_Fifo ==
    /\ \A i, j \in 1..Len(transactionQueue) :
           i < j => transactionQueue[i] < transactionQueue[j]
    /\ \A i, j \in Ids :
           (i < j /\ (Active(j) \/ Terminal(j) \/ task[j].invocations > 0)) => Terminal(i)

\* a submission enqueued in the 100 ms gap after a completion started its predecessor in
\* the queue: that one executes while the drain timer is still pending
C3_Witness ==
    \E j \in Ids :
        /\ j > 1
        /\ Terminal(j - 1)
        /\ Executing(j)
        /\ drainTimers > 0
        /\ submitted > j

\* C4: a submission is in the queue, running, or settled exactly once; it is settled at
\* most once, resolved with the hash its successful invocation returned or rejected with
\* the error thrown.
C4_ExactlyOnce ==
    \A id \in 1..submitted :
        /\ task[id].settled <= 1
        /\ InQueue(id) \/ Active(id) \/ (Terminal(id) /\ task[id].settled = 1)
        /\ (InQueue(id) \/ Active(id)) => task[id].settled = 0
        /\ task[id].pc = "resolved" =>
               task[id].result = [id |-> id, inv |-> task[id].invocations]
        /\ task[id].pc = "rejected" =>
               \/ task[id].result = ReadError /\ task[id].invocations = 0
               \/ task[id].result = task[id].lastError /\ task[id].result.kind = "send"

\* one submission resolved and another one rejected
C4_Witness ==
    \E i, j \in Ids :
        /\ task[i].pc = "resolved" /\ task[i].settled = 1
        /\ task[j].pc = "rejected" /\ task[j].settled = 1

\* C5: a submission rejected with a nonce-class error has invoked its txFactory exactly 5
\* times, has waited 1 s, 2 s, 4 s, 8 s and 16 s in that order, and is rejected with the
\* error of the last invocation; before that, its waits are the first ones of that list,
\* one per failed invocation.
C5_RetryBound ==
    \A id \in Ids :
        /\ task[id].invocations <= 5
        /\ task[id].waits = SubSeq(BackoffSchedule, 1, Len(task[id].waits))
        /\ (task[id].pc = "rejected" /\ task[id].result.msg \in NonceClassMessages) =>
               /\ task[id].invocations = 5
               /\ task[id].waits = BackoffSchedule
               /\ task[id].result = SendError(task[id].result.msg, 5)

\* a submission whose five invocations all failed with a nonce-class error is rejected
C5_Witness ==
    \E id \in Ids :
        /\ task[id].pc = "rejected"
        /\ task[id].result.msg \in NonceClassMessages

\* C6: once a txFactory invocation has failed with an error that is not nonce-class, the
\* submission is rejected with that error, with no wait and no invocation after it.
C6_NoRetryOfOtherErrors ==
    \A id \in Ids :
        (task[id].lastError.kind = "send" /\ task[id].lastError.msg \notin NonceClassMessages) =>
            /\ task[id].pc = "rejected"
            /\ task[id].result = task[id].lastError
            /\ task[id].invocations = task[id].lastError.inv
            /\ Len(task[id].waits) = task[id].invocations - 1

\* one submission rejected by a non-nonce error at its first invocation, another one after
\* nonce-class retries
C6_Witness ==
    \E i, j \in Ids :
        /\ task[i].pc = "rejected" /\ task[i].result.msg = <<"execution", "reverted">>
        /\ task[i].invocations = 1
        /\ task[j].pc = "rejected" /\ task[j].result.msg = <<"execution", "reverted">>
        /\ task[j].invocations > 1

\* C7: every transaction sent through the queue carries, as its nonce, the value
\* currentNonce had when its txFactory was invoked.
C7_NonceFromCounter ==
    \A i \in 1..Len(acceptedLog) : acceptedLog[i].nonce = acceptedLog[i].local

(***************************************************************************)
(* Properties of the reconciliation cycle.                                 *)
(***************************************************************************)
\* the cycles that are between their first statement and their finally block
RunningCycles == {c \in Cycles : act[c].pc \notin {"idle", "done"}}
\* the cycles that have begun
BegunCycles == {c \in Cycles : act[c].pc # "idle"}
\* the cycle is in updateMarketData
Resolving(c) == act[c].pc \in {"binance", "chainlink", "activeOrders"}
\* the cycle is in one of its branches
InBranch(c) == act[c].pc \in {"cancelRead", "cancelWait", "fillRead", "place"}
\* the cycle is past updateMarketData
Decided(c) == InBranch(c) \/ act[c].pc = "done"

\* the prices the sources can leave in lastMidPrice
Prices == (BinanceAnswers \cup ChainlinkAnswers) \ {BigZero}
\* the moves between them that the deviation check reports as significant
SignificantMoves ==
    UNION {IF isPriceDeviationSignificant(m[1], m[2]) THEN {m} ELSE {} :
               m \in Prices \X Prices}
\* the deviation, in basis points, of the move from 200000000000 to 210000000000
BoundaryDeviationBps ==
    BigDiv(BigMul(BigSub(Price2100, Price2000), BigOfInt(10000)), Price2000)

\* C8: at most one performMarketMakingCycle is running in any reachable state, the
\* in-progress flag is up while it runs, and every tick either began a cycle or was
\* skipped: the cycles begun are the call of start() plus the ticks not skipped
C8_CyclesNeverOverlap ==
    /\ Cardinality(RunningCycles) <= 1
    /\ (RunningCycles # {}) => isProcessing
    /\ Cardinality(BegunCycles)
         = (ticks - skippedTicks) + (IF act[0].pc = "running" THEN 1 ELSE 0)

\* a tick found the first cycle, the one start() called, running and was skipped
C8_Witness ==
    /\ act[0].pc = "running"
    /\ act[1].pc \notin {"idle", "done"}
    /\ act[2].pc = "idle"
    /\ skippedTicks > 0

\* C9: a cycle issues nothing and chooses nothing while it resolves the price; once
\* past the resolution it has entered exactly one branch: full replacement if the
\* reference price was 0 before the cycle or the deviation check reports the move as
\* significant, gap filling otherwise
C9_ExactlyOneBranch ==
    \A c \in Cycles :
        LET r == act[c] IN
        /\ Resolving(c) =>
              /\ r.branch = "none" /\ r.replaceRuns = 0 /\ r.fillRuns = 0
              /\ r.cancels = 0 /\ r.places = 0
        /\ InBranch(c) => r.fetches >= 1
        /\ Decided(c) =>
              /\ r.replaceRuns + r.fillRuns = 1
              /\ (r.replaceRuns = 1) <=>
                    (r.previousMidPrice = BigZero
                        \/ r.newPrice = BigZero
                        \/ <<r.previousMidPrice, r.newPrice>> \in SignificantMoves)
              /\ (r.branch = "replace") <=> (r.replaceRuns = 1)
              /\ (r.branch = "fill") <=> (r.fillRuns = 1)

\* one cycle replaced the ladder, having no prior reference price, and a later one
\* is placing a missing order after a move within the threshold
C9_Witness ==
    \E c, d \in Cycles :
        /\ act[c].pc = "done" /\ act[c].replaceRuns = 1 /\ act[c].fillRuns = 0
        /\ act[c].previousMidPrice = BigZero
        /\ act[d].pc = "place" /\ act[d].fillRuns = 1 /\ act[d].replaceRuns = 0
        /\ act[d].places > 0 /\ act[d].cancels = 0
        /\ act[d].previousMidPrice # BigZero /\ act[d].newPrice # act[d].previousMidPrice

\* C10: with the threshold of 500 bps and the old price 200000000000, the new price
\* 210000000000 deviates by exactly 500 bps and is not significant, and the new price
\* 210210000001, which is 210000001 higher, is significant; a cycle that moves between
\* these prices fills gaps in the first case and replaces the ladder in the second
C10_DeviationBoundary ==
    /\ PriceDeviationThresholdBps = 500
    /\ BoundaryDeviationBps = BigOfInt(500)
    /\ Price2102 = BigAdd(Price2100, BigOf(<<2, 1000, 1>>))
    /\ <<Price2000, Price2100>> \notin SignificantMoves
    /\ <<Price2000, Price2102>> \in SignificantMoves
    /\ \A c \in Cycles :
          (Decided(c) /\ act[c].previousMidPrice = Price2000) =>
              /\ (act[c].newPrice = Price2100) => (act[c].branch = "fill")
              /\ (act[c].newPrice = Price2102) => (act[c].branch = "replace")

\* one cycle met the boundary price and filled gaps, another met the price above it
\* and replaced the ladder
C10_Witness ==
    \E c, d \in Cycles :
        /\ Decided(c) /\ act[c].previousMidPrice = Price2000
        /\ act[c].newPrice = Price2100 /\ act[c].branch = "fill"
        /\ Decided(d) /\ act[d].previousMidPrice = Price2000
        /\ act[d].newPrice = Price2102 /\ act[d].branch = "replace"

(***************************************************************************)
(* Properties of the deviation check.                                      *)
(***************************************************************************)
\* |a - b| of bigints
BigAbsDiff(a, b) == IF BigGt(a, b) THEN BigSub(a, b) ELSE BigSub(b, a)
\* |new - old| * 10000 of the evaluation on record
ScaledMove == BigMul(BigAbsDiff(calc.oldPrice, calc.newPrice), BigOfInt(10000))
\* the exact deviation of the evaluation on record is above its threshold
ExactlyAbove == BigGt(ScaledMove, BigMul(BigOfInt(calc.thresholdBps), calc.oldPrice))

\* C11 as stated: for old > 0 and new > 0 the move is classified significant exactly
\* when |new - old| * 10000 > T * old
C11_ExactDeviation ==
    calc.fn = "isPriceDeviationSignificant" => (calc.result <=> ExactlyAbove)

\* C11, amended: for old > 0 and new > 0 the move is classified significant exactly
\* when |new - old| * 10000 >= (T + 1) * old, that is when the deviation truncated to
\* whole basis points exceeds T; a move classified significant is exactly above T,
\* but a move whose exact deviation lies between T and T + 1 is not significant
C11_TruncatedDeviation ==
    calc.fn = "isPriceDeviationSignificant" =>
        /\ calc.result <=>
              ~BigLt(ScaledMove, BigMul(BigOfInt(calc.thresholdBps + 1), calc.oldPrice))
        /\ calc.result => ExactlyAbove

\* a move from 200000000000 to 210000000001 under 500 bps: above the threshold by a
\* fraction of a basis point, and classified not significant
C11_Witness ==
    /\ calc.fn = "isPriceDeviationSignificant"
    /\ calc.oldPrice = Price2000 /\ calc.newPrice = BigOf(<<2100, 0, 1>>)
    /\ calc.thresholdBps = 500
    /\ ExactlyAbove
    /\ ~calc.result

(***************************************************************************)
(* Properties of the two branches of a cycle.                              *)
(***************************************************************************)
\* the place calls of one side among the rungs of a sequence
SideCount(rungs, side) == Cardinality({i \in 1..Len(rungs) : rungs[i].side = side})
\* the cycle has left its branch
Completed(c) == act[c].pc = "done"
\* the orders the branch's read reported
SeenTotal(c) == act[c].seen.buy + act[c].seen.sell

\* C12 as stated: a completed replace-all cycle has issued one cancel for each order
\* open for the account and exactly 2 * depth place calls, depth of them buys and
\* depth sells
C12_ReplaceAlwaysComplete ==
    \A c \in Cycles :
        (Completed(c) /\ act[c].branch = "replace") =>
            /\ act[c].seen.read /\ act[c].cancels = SeenTotal(c)
            /\ act[c].places = 2 * MaxOrdersPerSide
            /\ SideCount(act[c].issued, "BUY") = MaxOrdersPerSide
            /\ SideCount(act[c].issued, "SELL") = MaxOrdersPerSide

\* C12, amended: a completed replace-all cycle has issued one cancel for each order
\* the exchange reported to it (none if that read failed) and, if a reference price is
\* known, exactly 2 * depth place calls, depth buys and depth sells, however many of
\* the cancels failed; without a reference price (lastMidPrice = 0) it has issued no
\* place call at all
C12_ReplaceComplete ==
    \A c \in Cycles :
        (Completed(c) /\ act[c].branch = "replace") =>
            /\ act[c].cancels = (IF act[c].seen.read THEN SeenTotal(c) ELSE 0)
            /\ (act[c].newPrice # BigZero) =>
                  /\ act[c].places = 2 * MaxOrdersPerSide
                  /\ SideCount(act[c].issued, "BUY") = MaxOrdersPerSide
                  /\ SideCount(act[c].issued, "SELL") = MaxOrdersPerSide
            /\ (act[c].newPrice = BigZero) => (act[c].places = 0)

\* a replace-all cycle is awaiting its last place call after a cancel of its failed
C12_Witness ==
    \E c \in Cycles :
        /\ act[c].branch = "replace" /\ act[c].pc = "place"
        /\ act[c].seen.read /\ act[c].cancels = SeenTotal(c) /\ act[c].cancels > 0
        /\ act[c].failed > 0
        /\ act[c].places = 2 * MaxOrdersPerSide

\* buy rungs 0..depth-1, then sell rungs 0..depth-1
BuysThenSells ==
    [i \in 1..(2 * MaxOrdersPerSide) |->
        IF i <= MaxOrdersPerSide
        THEN [side |-> "BUY", index |-> i - 1]
        ELSE [side |-> "SELL", index |-> i - MaxOrdersPerSide - 1]]

\* C13: in a replace-all cycle no place call is issued while the open-order read or a
\* cancel is unresolved, and the place calls are issued one at a time, each after the
\* one before it resolved: buy rungs 0..depth-1 in order, then sell rungs 0..depth-1
C13_CancelsThenOrderedPlaces ==
    \A c \in Cycles :
        (act[c].branch = "replace") =>
            /\ act[c].pc \in {"cancelRead", "cancelWait"} =>
                  act[c].places = 0 /\ act[c].issued = <<>>
            /\ act[c].pendingCancels # <<>> => act[c].places = 0
            /\ act[c].places = Len(act[c].issued)
            /\ Len(act[c].issued) <= 2 * MaxOrdersPerSide
            /\ act[c].issued = SubSeq(BuysThenSells, 1, Len(act[c].issued))
            /\ act[c].pc = "place" =>
                  /\ act[c].pendingCancels = <<>>
                  /\ act[c].issued # <<>>
                  /\ act[c].issued[Len(act[c].issued)] = Head(act[c].toPlace)
                  /\ Len(act[c].issued) + Len(act[c].toPlace) = 2 * MaxOrdersPerSide + 1

\* a replace-all cycle that issued cancels is awaiting the place call of its first sell
\* rung
C13_Witness ==
    \E c \in Cycles :
        /\ act[c].branch = "replace" /\ act[c].pc = "place"
        /\ act[c].cancels > 1
        /\ act[c].places = MaxOrdersPerSide + 1
        /\ Head(act[c].toPlace) = [side |-> "SELL", index |-> 0]

\* C14: a fill-gaps cycle issues no cancel, and for each side exactly
\* max(0, depth - count) place calls, count being the orders of that side its read
\* returned: none at all when both sides hold depth orders or more
C14_FillsOnlyTheGaps ==
    \A c \in Cycles :
        (act[c].branch = "fill") =>
            /\ act[c].cancels = 0 /\ act[c].pendingCancels = <<>>
            /\ ~act[c].seen.read => act[c].places = 0
            /\ (Completed(c) /\ act[c].seen.read) =>
                  /\ SideCount(act[c].issued, "BUY") = Max0(MaxOrdersPerSide - act[c].seen.buy)
                  /\ SideCount(act[c].issued, "SELL") = Max0(MaxOrdersPerSide - act[c].seen.sell)
                  /\ act[c].places = Len(act[c].issued)
                  /\ (act[c].seen.buy >= MaxOrdersPerSide /\ act[c].seen.sell >= MaxOrdersPerSide)
                        => act[c].places = 0

\* one fill-gaps cycle found both sides full and placed nothing, another found the
\* buy side short of rungs and placed as many as were missing
C14_Witness ==
    \E c, e \in Cycles :
        /\ Completed(c) /\ act[c].branch = "fill" /\ act[c].seen.read
        /\ act[c].seen.buy = MaxOrdersPerSide /\ act[c].seen.sell = MaxOrdersPerSide
        /\ act[c].places = 0
        /\ Completed(e) /\ act[e].branch = "fill" /\ act[e].seen.read
        /\ act[e].seen.buy > 0 /\ act[e].seen.buy < MaxOrdersPerSide
        /\ SideCount(act[e].issued, "BUY") = MaxOrdersPerSide - act[e].seen.buy
        /\ act[e].places = 2 * MaxOrdersPerSide - SeenTotal(e)

\* no later cycle has begun
Latest(c) == \A e \in Cycles : e > c => act[e].pc = "idle"

\* C15: after a fill-gaps cycle that added rungs, no two open orders of one side that
\* were placed from the cycle's reference price have the same ladder index
C15_GapRungsDoNotOverlap ==
    \A c \in Cycles :
        (Completed(c) /\ Latest(c) /\ act[c].branch = "fill" /\ act[c].places > 0) =>
            \A o, p \in openOrders :
                (o.id # p.id /\ o.side = p.side
                    /\ o.mid = act[c].newPrice /\ p.mid = act[c].newPrice)
                  => o.index # p.index

(***************************************************************************)
(* Properties of the rung prices.                                          *)
(***************************************************************************)
\* mid * offsetBps of the quoted rung
ScaledOffset ==
    BigMul(calc.mid, BigOfInt(calc.spreadBps + calc.stepBps * calc.position))
\* how far the quoted rung's price lies from the mid price, on its side of it
Distance(price) ==
    IF calc.side = "BUY" THEN BigSub(calc.mid, price) ELSE BigSub(price, calc.mid)
\* the prices the specification lists for mid 200000000000, spread 20, step 10
ListedPrices ==
    [side \in {"BUY", "SELL"} |->
        IF side = "BUY"
        THEN <<BigOf(<<1996, 0, 0>>), BigOf(<<1994, 0, 0>>), BigOf(<<1992, 0, 0>>)>>
        ELSE <<BigOf(<<2004, 0, 0>>), BigOf(<<2006, 0, 0>>), BigOf(<<2008, 0, 0>>)>>]

\* C16: the price of rung i lies mid * (spreadBps + stepBps * i) / 10000, truncated,
\* below the mid price for a buy and above it for a sell; for mid 200000000000,
\* spread 20 and step 10 the rungs 0, 1, 2 are the listed prices; and fillMissingOrders
\* prices a position as placeMakerOrders prices that index
C16_LadderFormula ==
    calc.fn = "price" =>
        /\ ~BigGt(BigMul(Distance(calc.replacePrice), BigOfInt(10000)), ScaledOffset)
        /\ BigGt(BigMul(BigAdd(Distance(calc.replacePrice), BigOfInt(1)), BigOfInt(10000)),
                 ScaledOffset)
        /\ (calc.mid = Price2000 /\ calc.spreadBps = 20 /\ calc.stepBps = 10
                /\ calc.position < 3)
              => calc.replacePrice = ListedPrices[calc.side][calc.position + 1]
        /\ calc.fillPrice = calc.replacePrice

\* the third buy rung of the listed ladder is quoted
C16_Witness ==
    /\ calc.fn = "price" /\ calc.side = "BUY" /\ calc.mid = Price2000
    /\ calc.spreadBps = 20 /\ calc.stepBps = 10 /\ calc.position = 2
    /\ calc.replacePrice = BigOf(<<1992, 0, 0>>)
    /\ calc.fillPrice = BigOf(<<1992, 0, 0>>)

\* the price is a whole multiple of the price increment
WholeIncrements(price) ==
    BigMul(BigDiv(price, BigOfInt(10000)), BigOfInt(10000)) = price
\* the price is at most a bound and less than one increment below it
FloorOf(price, bound) ==
    /\ ~BigGt(price, bound)
    /\ BigGt(BigAdd(price, BigOfInt(10000)), bound)
\* the price is the floor, in whole increments, of a computed 8-decimal price
\* expressed in the decimals of the quote token
FloorOfConverted(price, computed) ==
    IF calc.quoteDecimals >= 8
    THEN FloorOf(price, BigMul(computed, Pow10(calc.quoteDecimals - 8)))
    ELSE /\ ~BigGt(BigMul(price, Pow10(8 - calc.quoteDecimals)), computed)
         /\ BigGt(BigMul(BigAdd(price, BigOfInt(10000)), Pow10(8 - calc.quoteDecimals)),
                  computed)

Resolved(a) == act[a].pc = "activeOrders"
\* the answers above zero among those an activity received
Positive(a) == {i \in 1..Len(act[a].answers) : BigGt(act[a].answers[i], BigZero)}

\* C17: the spot feed is asked first if it is enabled, the price feed is asked next
\* if the spot feed gave no value above zero, the configured default is taken if
\* neither gave one, and the reference price is the first value above zero in that
\* order
C17_FirstPositiveSource ==
    \A a \in Acts :
        Resolved(a) =>
            /\ Len(act[a].answers) =
                  (IF useBinancePrice /\ ~BigGt(act[a].answers[1], BigZero) THEN 2 ELSE 1)
            /\ Positive(a) # {} => lastMidPrice = act[a].answers[Len(act[a].answers)]
            /\ Positive(a) = {} => lastMidPrice = DefaultPrice

\* a cycle past its updateMarketData and not finished
PastUpdate(c) == act[c].pc \in {"activeOrders", "cancelRead", "cancelWait", "fillRead", "place"}
\* no source of the cycle gave a value above zero
Exhausted(c) == PastUpdate(c) /\ Positive(c) = {}

\* C18: a cycle none of whose price sources gave a value above zero leaves the
\* reference price at the value the cycle started with and goes on to its decision,
\* replace-all if there was no price yet and fill-gaps otherwise; and once the cycles
\* begun have finished, the in-progress flag is down, so that the next tick starts a
\* cycle
C18_ExhaustionIsNotFatal ==
    /\ \A c \in Cycles :
          Exhausted(c) =>
            /\ lastMidPrice = act[c].previousMidPrice
            /\ act[c].pc # "activeOrders" =>
                  /\ act[c].newPrice = act[c].previousMidPrice
                  /\ act[c].branch = (IF act[c].previousMidPrice = BigZero
                                      THEN "replace" ELSE "fill")
    /\ (\A c \in Cycles : act[c].pc \in {"idle", "done"}) /\ act[0].pc = "running"
          => ~isProcessing

\* a cycle without any price has finished, and the cycle of the next tick has taken a
\* price from its sources and is placing the ladder
C18_Witness ==
    \E c, e \in Cycles :
        /\ e = c + 1
        /\ Completed(c) /\ act[c].branch = "replace"
        /\ act[c].previousMidPrice = BigZero /\ act[c].newPrice = BigZero
        /\ act[e].pc = "place" /\ Positive(e) # {}
        /\ act[e].newPrice = lastMidPrice /\ lastMidPrice # BigZero

(***************************************************************************)
(* Properties of failing calls.                                            *)
(***************************************************************************)
\* the place calls a cycle is to make once it knows its branch and what it needs:
\* the whole ladder when replacing with a price, the gaps its read found when filling
PlannedPlaces(c) ==
    IF act[c].branch = "replace"
    THEN (IF act[c].newPrice = BigZero THEN 0 ELSE 2 * MaxOrdersPerSide)
    ELSE Max0(MaxOrdersPerSide - act[c].seen.buy)
            + Max0(MaxOrdersPerSide - act[c].seen.sell)

\* C19: a cancel or place call that rejects stops nothing: every cancel of the batch
\* has been issued, the place calls follow the cancels, after a rejected call the
\* cycle still has every remaining rung of both sides in hand, and a finished cycle
\* has made every place call it was to make
C19_FailuresAreSkipped ==
    \A c \in Cycles :
        /\ (act[c].failed > 0 /\ act[c].pc = "cancelWait") =>
              act[c].cancels = SeenTotal(c) /\ act[c].pendingCancels # <<>>
        /\ (act[c].failed > 0 /\ act[c].pc = "place") =>
              act[c].places + Len(act[c].toPlace) - 1 = PlannedPlaces(c)
        /\ act[c].failed > 0 => act[c].pc \in {"cancelWait", "place"}
        /\ (Completed(c) /\ (act[c].branch = "replace" \/ act[c].seen.read)) =>
              act[c].places = PlannedPlaces(c)

\* the first place call of a cycle was rejected and a later one is awaited
C19_Witness ==
    \E c \in Cycles :
        /\ act[c].pc = "place" /\ act[c].failed > 0 /\ act[c].cancels = 0
        /\ act[c].places >= 2
        /\ ~(\E o \in openOrders : o.mid = lastMidPrice)

(***************************************************************************)
(* The nonce resync of executeWithNonce.                                   *)
(***************************************************************************)

\* C23: once the local nonce is known, no step (an accepted send, the periodic
\* resync, the re-fetch after a nonce-class error) sets it to a lower value
C23_NonceNeverLowered ==
    [][currentNonce # NoNonce => currentNonce' >= currentNonce]_vars

\* C29: one resync per ResyncEvery accepted sends: while a scheduled resync has
\* not completed, no accepted send schedules another one
C29_OneResyncPending ==
    [][resyncTimers > 0 => resyncTimers' <= resyncTimers]_vars

\* C30: a resync whose fetch returns adopts the on-chain count only if it is
\* strictly greater than the local nonce of that moment and resets the pending
\* counter to 0; a resync whose fetch fails changes neither
C30_ResyncAdoption ==
    [][resyncTimers' = resyncTimers - 1 =>
         IF faults' = faults
         THEN /\ currentNonce' = IF chainCount > currentNonce
                                 THEN chainCount ELSE currentNonce
              /\ pendingTransactions' = 0
         ELSE /\ currentNonce' = currentNonce
              /\ pendingTransactions' = pendingTransactions]_vars

\* a resync has adopted the on-chain count while a send accepted by the chain had
\* not returned yet, and another resync is still to come
C30_Witness ==
    /\ Len(acceptedLog) > ResyncEvery
    /\ pendingTransactions = 0
    /\ currentNonce = chainCount
    /\ resyncTimers > 0
    /\ \E id \in Ids : task[id].pc = "accepted"

(***************************************************************************)
(* The nonce-error branch and the lazy fetch of executeWithNonce.          *)
(***************************************************************************)

\* C31: after a nonce-class send failure the local nonce becomes the on-chain count
\* the re-fetch returns; if the re-fetch fails the local nonce is unchanged; in both
\* cases the same backoff wait follows, then attempt + 1 and the next invocation,
\* made with the local nonce of that moment (or the rejection after the fifth)
C31_RefetchThenRetry ==
    [][\A id \in Ids :
         /\ task[id].pc = "refetch" =>
              \/ task'[id] = task[id]
              \/ /\ task'[id] = [task[id] EXCEPT
                                   !.pc = "backoff",
                                   !.waits = Append(@, (2 ^ task[id].attempt) * 1000)]
                 /\ currentNonce' = IF faults' = faults THEN chainCount ELSE currentNonce
         /\ (task[id].pc = "backoff" /\ task'[id] # task[id]) =>
              /\ task'[id].attempt = task[id].attempt + 1
              /\ task'[id].waits = task[id].waits
              /\ IF task[id].attempt + 1 < 5
                 THEN /\ task'[id].pc = "inflight"
                      /\ task'[id].invocations = task[id].invocations + 1
                      /\ task'[id].nonceAtCall = currentNonce
                 ELSE /\ task'[id].pc = "rejected"
                      /\ task'[id].invocations = task[id].invocations]_vars

\* the second invocation of a submission is running after a nonce-class failure whose
\* re-fetch failed: the local nonce is still the one of the first invocation although
\* the on-chain count has moved
C31_Witness ==
    \E id \in Ids :
        /\ task[id].pc = "inflight"
        /\ task[id].invocations = 2
        /\ task[id].waits = <<1000>>
        /\ faults = 2
        /\ currentNonce = InitialCount
        /\ chainCount = InitialCount + 1
        /\ task[id].nonceAtCall = currentNonce

\* the submissions processQueue has taken from the queue
Begun(id) == task[id].pc \notin {"new", "queued"}

\* C32: the local nonce is unknown until a first submission is processed; the initial
\* fetch runs only while it is unknown and one at a time; a failed initial fetch rejects
\* its submission with no txFactory invocation, leaves the nonce unknown and runs the
\* finally block of processQueue (flag cleared, drain timer set if wrappers are queued),
\* and the submission begun next fetches again
C32_LazyNonceFetch ==
    /\ [](/\ currentNonce # NoNonce => \E id \in Ids : Begun(id)
          /\ Cardinality({id \in Ids : task[id].pc = "initFetch"}) <= 1
          /\ \A id \in Ids :
                /\ task[id].pc = "initFetch" =>
                      currentNonce = NoNonce /\ task[id].invocations = 0
                /\ task[id].invocations > 0 => currentNonce # NoNonce)
    /\ [][\A id \in Ids :
            /\ (task[id].pc = "initFetch" /\ task'[id] # task[id] /\ faults' # faults) =>
                  /\ task'[id].pc = "rejected"
                  /\ task'[id].settled = 1
                  /\ task'[id].invocations = 0
                  /\ currentNonce' = NoNonce
                  /\ processingQueue' = FALSE
                  /\ transactionQueue' = transactionQueue
                  /\ drainTimers' = drainTimers +
                                      (IF Len(transactionQueue) > 0 THEN 1 ELSE 0)
            /\ (~Begun(id) /\ Begun(id)') =>
                  IF currentNonce = NoNonce
                  THEN task'[id].pc = "initFetch"
                  ELSE task'[id].pc = "inflight" /\ task'[id].nonceAtCall = currentNonce]_vars

\* the initial fetch of the first submission failed and rejected it; the second
\* submission, queued meanwhile, repeated the fetch and has been sent
C32_Witness ==
    /\ task[1].pc = "rejected"
    /\ task[1].result = ReadError
    /\ task[1].invocations = 0
    /\ task[2].pc = "resolved"
    /\ currentNonce = InitialCount + 1
    /\ acceptedLog[1].id = 2

\* C33: the return of an accepted send adds exactly 1 to the local nonce and exactly 1
\* to the pending-since-resync counter; the rejection of a submission whose first
\* invocation failed with an error that is not nonce-class changes neither, and leaves
\* the queued wrappers and the other submissions as they were
C33_CounterEffects ==
    [][\A id \in Ids :
         /\ (task[id].pc = "accepted" /\ task'[id].pc = "resolved") =>
               /\ currentNonce' = currentNonce + 1
               /\ pendingTransactions' = pendingTransactions + 1
         /\ (task[id].pc = "inflight" /\ task'[id].pc = "rejected"
                /\ task[id].invocations = 1) =>
               /\ currentNonce' = currentNonce
               /\ pendingTransactions' = pendingTransactions
               /\ transactionQueue' = transactionQueue
               /\ \A other \in Ids \ {id} : task'[other] = task[other]]_vars

\* the fifth accepted send has returned and scheduled a resync, with the counter at 5;
\* the next submission was rejected at its first invocation while another one waited
C33_Witness ==
    /\ pendingTransactions = ResyncEvery
    /\ currentNonce = InitialCount + ResyncEvery
    /\ resyncTimers > 0
    /\ task[ResyncEvery + 1].pc = "rejected"
    /\ task[ResyncEvery + 1].invocations = 1
    /\ task[ResyncEvery + 1].result.msg = <<"execution", "reverted">>
    /\ Len(transactionQueue) > 0

(***************************************************************************)
(* The reference price and the ladder over the cycles.                     *)
(***************************************************************************)

C35_LadderSizeBound ==
    (~isProcessing /\ \E c \in Cycles : act[c].pc = "done") =>
        /\ CountSide(openOrders, "BUY") <= MaxOrdersPerSide
        /\ CountSide(openOrders, "SELL") <= MaxOrdersPerSide

\* C36: the old price of a cycle is the reference price as the cycle found it, which
\* is the one the preceding cycle decided on (or the start-up fetch left); a cycle
\* whose new price is within the threshold of that old price fills gaps, whatever
\* price the resting orders were placed from
C36_DeviationBaseline ==
    \A c \in Cycles :
        /\ act[c].pc \in {"binance", "chainlink"} =>
              act[c].previousMidPrice = lastMidPrice
        /\ (c > 1 /\ act[c].pc # "idle") =>
              /\ act[c - 1].pc = "done"
              /\ act[c].previousMidPrice = act[c - 1].newPrice
        /\ (Decided(c) /\ act[c].previousMidPrice # BigZero
               /\ ~isPriceDeviationSignificant(act[c].previousMidPrice, act[c].newPrice)) =>
              act[c].branch = "fill"

\* three cycles: the ladder was placed from $2000, the price went to $2100 and then to
\* $2102.10000001; the third cycle fills gaps although the price is more than the
\* threshold away from the one the resting orders were placed from
C36_Witness ==
    \E c \in Cycles :
        /\ c > 2
        /\ act[c].branch = "fill"
        /\ act[c].previousMidPrice = Price2100
        /\ act[c].newPrice = Price2102
        /\ act[c - 1].branch = "fill"
        /\ act[c - 1].previousMidPrice = Price2000
        /\ \A o \in openOrders : o.mid = Price2000
        /\ CountSide(openOrders, "BUY") = MaxOrdersPerSide
        /\ isPriceDeviationSignificant(Price2000, act[c].newPrice)

\* C37: once stop() has returned no placeOrder call is made: a cycle that was running
\* when stop() was called makes none after stop's cancel-all pass has ended, because
\* the process ends in the step in which stop() returns
C37_NoPlaceAfterStop ==
    /\ [](act[StopAct].pc = "stopped" => exited)
    /\ [][act[StopAct].pc = "stopped" =>
             \A c \in Cycles : act'[c].places = act[c].places]_vars

\* the process has ended with a cycle between two place calls: the cycle was running
\* when stop() was called, and an order it placed while stop's pass ran is left open
C37_Witness ==
    /\ exited
    /\ act[StopAct].pc = "stopped"
    /\ \E c \in Cycles : act[c].pc = "place" /\ act[c].places > 1
    /\ openOrders # {}

\* C38: isProcessing is true exactly while a cycle is between its first statement and
\* its finally block, whatever way the cycle ends; so a tick that fires when no cycle
\* is running is not skipped and starts one
C38_FlagNeverStuck ==
    /\ [](isProcessing <=> RunningCycles # {})
    /\ [][(ticks' = ticks + 1 /\ RunningCycles = {}) =>
             /\ skippedTicks' = skippedTicks
             /\ Cardinality(BegunCycles') = Cardinality(BegunCycles) + 1
             /\ isProcessing']_vars

\* the first cycle ended on a failed read of the open orders, and the tick after it
\* started the second cycle
C38_Witness ==
    /\ act[1].pc = "done"
    /\ act[1].branch \in {"replace", "fill"}
    /\ ~act[1].seen.read
    /\ ticks = 1 /\ skippedTicks = 0
    /\ act[2].pc \notin {"idle", "done"}
    /\ isProcessing

\* C39: the rungs one placeMakerOrders call submits are computed from one
\* configuration: the same depth, spread, step and order size for every rung, buy or
\* sell, also when a configuration refresh completes while a send is awaited
C39_OneConfigurationPerCycle ==
    /\ \A m, n \in 1..Len(ladder.placed) :
          /\ ladder.placed[m].maxOrdersPerSide = ladder.placed[n].maxOrdersPerSide
          /\ ladder.placed[m].quantity = ladder.placed[n].quantity
          /\ ladder.placed[m].totalBasisPoints - ladder.placed[m].index * ladder.priceStepBasisPoints
                = ladder.placed[n].totalBasisPoints - ladder.placed[n].index * ladder.priceStepBasisPoints
    /\ ladder.pc = "done" =>
          SideCount(ladder.placed, "BUY") = SideCount(ladder.placed, "SELL")

\* C40: on one signal stop() of the market maker is called at most once, so no open
\* order gets a cancel from two cancel-all passes, in mode 'all' as in the others
C40_OneShutdownPerSignal ==
    /\ Cardinality({s \in StopActs : act[s].pc # "idle"}) <= 1
    /\ \A m \in 1..Len(act[StopAct].pendingCancels),
          n \in 1..Len(act[SecondStopAct].pendingCancels) :
            act[StopAct].pendingCancels[m] # act[SecondStopAct].pendingCancels[n]

(***************************************************************************)
(* The staleness window of the on-chain price feed.                        *)
(***************************************************************************)
\* the clock in whole seconds, as the feed's update time is
NowSeconds == calc.nowMs \div 1000

\* C28: a feed answer is rejected (the read yields 0) exactly when
\* now - updatedAt > 3600 seconds; an answer of age 3600 seconds or less is
\* accepted, that is, yielded as it was read
C28_StaleAfterAnHour ==
    calc.fn = "feed" =>
        /\ NowSeconds - calc.updatedAt > 3600 => calc.result = BigZero
        /\ NowSeconds - calc.updatedAt <= 3600 => calc.result = calc.answer
        /\ calc.answer # BigZero =>
              (calc.result = BigZero <=> NowSeconds - calc.updatedAt > 3600)

\* a positive answer exactly 3600 seconds old has been accepted
C28_Witness ==
    /\ calc.fn = "feed"
    /\ calc.nowMs = (calc.updatedAt + 3600) * 1000
    /\ BigGt(calc.answer, BigZero)
    /\ calc.result = calc.answer

(***************************************************************************)
(* Progress of the execution queue.                                        *)
(***************************************************************************)
\* C22: provided every txFactory invocation and chain read returns and timers
\* fire, every enqueued submission is eventually resolved or rejected, and the
\* queue is never left with pending wrappers, nothing processing and no drain
\* timer set, whatever happened to the submissions before them
C22_QueueLiveness ==
    /\ [](Len(transactionQueue) > 0 => processingQueue \/ drainTimers > 0)
    /\ \A id \in 1..LiveSubmissions : (task[id].pc = "queued") ~> Terminal(id)

\* a submission was rejected after its retries were exhausted and the one
\* enqueued behind it has been resolved
C22_Witness ==
    \E i, j \in 1..LiveSubmissions :
        /\ i < j
        /\ task[i].pc = "rejected"
        /\ task[i].attempt = Retries
        /\ task[j].waits = <<>>
        /\ task[j].pc = "resolved"

StopPassLeaves == act[StopAct].pc = "cancelRead" /\ act'[StopAct].pc # "cancelRead"

\* C25 as stated: after stop() no cycle is started by the timer, and its cancel-all
\* pass issues one cancel per order open at that time
C25_StopCancelsEveryOpenOrder ==
    /\ [][manager.pc = "stopping" => ticks' = ticks /\ skippedTicks' = skippedTicks]_vars
    /\ [][StopPassLeaves => act'[StopAct].cancels = Cardinality(openOrders)]_vars

\* C25: stop() clears the timer first, so no cycle is started by the timer after
\* it, and its one cancel-all pass issues one cancel per order that its read of the
\* open orders returned, none when that read fails
C25_StopCancelsWhatItRead ==
    /\ [](manager.pc = "stopping" => ~priceRefreshInterval)
    /\ [][manager.pc = "stopping" => ticks' = ticks /\ skippedTicks' = skippedTicks]_vars
    /\ [][StopPassLeaves =>
             act'[StopAct].cancels = IF act'[StopAct].seen.read
                                     THEN Cardinality(openOrders) ELSE 0]_vars
    /\ [][act[StopAct].pc # "cancelRead" => act'[StopAct].cancels = act[StopAct].cancels]_vars

\* stop() was called before the timer had fired, and its pass has cancelled a
\* whole ladder
C25_Witness ==
    /\ manager.pc = "stopped"
    /\ ticks = 0
    /\ act[StopAct].pc = "stopped"
    /\ act[StopAct].cancels = 2 * MaxOrdersPerSide
    /\ openOrders = {}

(***************************************************************************)
(* The trading agent.                                                      *)
(***************************************************************************)
\* the executeTrade calls that have made a submission
Submitting == {t \in Trades : trade[t].id # 0}
\* the executeTrade calls that are past their two price reads
PastReads == {t \in Trades : trade[t].pc \in {"queued", "writing", "skipped", "done"}}
\* a submission is not begun before every earlier one is settled
OneAtATimeInOrder ==
    \A i, j \in 1..submitted :
        i < j /\ task[j].pc # "queued" => task[i].pc \in {"resolved", "rejected"}

\* C21: every state-changing transaction of a trading agent goes through its
\* account's execution queue: no writeContract call is made outside it
C21_SingleWriter ==
    /\ directWrites = 0
    /\ \A t \in Trades : trade[t].pc # "writing"

\* C26: when the process exits on shutdown, every submission made to the queue has
\* been resolved or rejected
C26_NothingDiscardedAtExit ==
    exited => \A id \in 1..submitted : Terminal(id)

\* C27 as stated: every tick submits exactly one market order through the queue,
\* and the orders of overlapping ticks are sent one at a time in the order they
\* were enqueued
C27_OneOrderPerTick ==
    /\ \A t \in PastReads : trade[t].id \in 1..submitted
    /\ \A t, u \in Submitting : t # u => trade[t].id # trade[u].id
    /\ submitted = Cardinality(Submitting)
    /\ OneAtATimeInOrder

\* C27: every tick that obtains a current price (a best bid or a best ask above 0)
\* submits exactly one market order through the queue and a tick that obtains none
\* submits nothing; the orders of overlapping ticks are sent one at a time in the
\* order they were enqueued
C27_OneOrderPerPricedTick ==
    /\ \A t \in PastReads :
          IF trade[t].bid > 0 \/ trade[t].ask > 0
          THEN trade[t].id \in 1..submitted /\ trade[t].pc # "skipped"
          ELSE trade[t].id = 0 /\ trade[t].pc = "skipped"
    /\ \A t \in Trades \ PastReads : trade[t].id = 0
    /\ \A t, u \in Submitting : t # u => trade[t].id # trade[u].id
    /\ submitted = Cardinality(Submitting)
    /\ directWrites = 0
    /\ OneAtATimeInOrder

\* two ticks overlapped, the second enqueued its order first, and both orders were
\* sent, in that order
C27_Witness ==
    /\ trade[1].id = 2
    /\ trade[2].id = 1
    /\ Len(acceptedLog) = 2
    /\ acceptedLog[1].id = 1
    /\ acceptedLog[2].id = 2
    /\ task[2].pc = "resolved"


====
